---- MODULE Spec2Model ----
(***************************************************************************)
(* Model of src/gs25_inventory.py: the convenience-store inventory ledger. *)
(*                                                                         *)
(* State: the two session tables (st.session_state.inventory and           *)
(* st.session_state.transactions) and the two reset confirmation counters. *)
(* One action per button handler of the dashboard.                         *)
(*                                                                         *)
(* Conventions                                                             *)
(*  - A text value (a product code, a product name, a text cell) is a      *)
(*    sequence of one-character strings, so that str.strip(), str(int) and *)
(*    float(str) are computed, not assumed.                                *)
(*  - A quantity or a price is a Python float (an IEEE 754 double), held   *)
(*    exactly: [kind, neg, mant, exp].  kind = "num" is the finite value   *)
(*    mant * 2^exp, negated when neg, with exp <= 0 and the fraction in    *)
(*    lowest terms; mant is a natural number of any size, written in       *)
(*    limbs of 15 bits, the lowest first (<<>> is 0, <<5>> is 5).  The     *)
(*    number 4.5 is [kind |-> "num", neg |-> FALSE, mant |-> <<9>>,        *)
(*    exp |-> -1].  kind = "inf" is an infinity and "nan" is not a number. *)
(*    Sums, products and conversions are rounded as the double arithmetic  *)
(*    of the machine rounds them (to nearest, ties to even).  A Python int *)
(*    of the program (a form value, the result of int()) is held as the    *)
(*    float of the same value.  -0.0 is the zero with neg = TRUE.          *)
(*  - The values a number_input of a form yields are whole numbers, given  *)
(*    to the handlers as integers; a multiplier is given in tenths (15     *)
(*    stands for 1.5).                                                     *)
(*  - The wall-clock columns (the timestamps, weekday and month) are not   *)
(*    modelled: they are datetime.now() and no operation reads them.       *)
(*  - Table column names and transaction types are written in ASCII:       *)
(*      code = 상품코드   name = 상품명    category = 중분류  price = 매가   *)
(*      stock = 재고수량  carry = 이월수량  recommended = 추천재고수량        *)
(*      qty = 수량        before = 변경전   after = 변경후                   *)
(*      "inbound" = 입고  "sale" = 판매  "disposal" = 폐기                   *)
(*      "manual-adjust" = 직접조정  "new-registration" = 신규등록            *)
(***************************************************************************)
EXTENDS Integers, Sequences, FiniteSets

VARIABLES
    inventory,              \* st.session_state.inventory: sequence of product rows
    transactions,           \* st.session_state.transactions: sequence of records
    reset_inventory_count,  \* st.session_state.reset_inventory_count
    reset_trans_count,      \* st.session_state.reset_trans_count
    last,                   \* what the last handler was given and what it reported
    steps                   \* number of handlers run so far

vars == <<inventory, transactions, reset_inventory_count, reset_trans_count, last, steps>>

(***************************************************************************)
(* Bounds of the model.                                                    *)
(***************************************************************************)
\* number of button presses explored
MaxSteps == 3
\* number of data rows of an uploaded spreadsheet
MaxRows == 2

(***************************************************************************)
(* Natural numbers of any size, in limbs of 15 bits, the lowest first and   *)
(* the highest not 0.  They carry the significands of the floats.           *)
(***************************************************************************)
Max(a, b) == IF a >= b THEN a ELSE b
Min(a, b) == IF a <= b THEN a ELSE b

LimbBits == 15
Base == 32768

TwoTo(k) == 2 ^ k

\* number of bits of a limb
RECURSIVE BitLenSmall(_)
BitLenSmall(n) ==
    IF n = 0 THEN 0
    ELSE IF n >= 256 THEN 8 + BitLenSmall(n \div 256)
    ELSE IF n >= 16 THEN 4 + BitLenSmall(n \div 16)
    ELSE 1 + BitLenSmall(n \div 2)

\* number of 0 bits at the low end of a limb that is not 0
RECURSIVE TrailingZerosSmall(_)
TrailingZerosSmall(n) ==
    IF n % 2 = 1 THEN 0
    ELSE IF n % 256 = 0 THEN 8 + TrailingZerosSmall(n \div 256)
    ELSE IF n % 16 = 0 THEN 4 + TrailingZerosSmall(n \div 16)
    ELSE 1 + TrailingZerosSmall(n \div 2)

Limb(a, i) == IF i >= 1 /\ i <= Len(a) THEN a[i] ELSE 0

\* index of the highest limb that is not 0; 0: there is none
TopLimb(a) ==
    CHOOSE i \in 0..Len(a) : (i = 0 \/ a[i] # 0) /\ \A j \in (i + 1)..Len(a) : a[j] = 0

BigTrim(a) == IF a = <<>> \/ a[Len(a)] # 0 THEN a ELSE SubSeq(a, 1, TopLimb(a))

RECURSIVE BigFromNat(_)
BigFromNat(n) == IF n = 0 THEN <<>> ELSE <<n % Base>> \o BigFromNat(n \div Base)

\* raw[lo..hi] with every entry brought into 0..Base-1, the excess (or the
\* debt, when negative) carried upward; the range is halved, not walked, to
\* keep the evaluation shallow
Joined(left, right) == [out |-> left \o right.out, carry |-> right.carry]

RECURSIVE CarryRange(_, _, _, _), CarryUpper(_, _, _, _)
CarryRange(raw, lo, hi, carry) ==
    IF lo > hi THEN [out |-> <<>>, carry |-> carry]
    ELSE IF lo = hi
    THEN [out |-> <<(raw[lo] + carry) % Base>>, carry |-> (raw[lo] + carry) \div Base]
    ELSE CarryUpper(raw, (lo + hi) \div 2, hi, CarryRange(raw, lo, (lo + hi) \div 2, carry))

CarryUpper(raw, mid, hi, left) == Joined(left.out, CarryRange(raw, mid + 1, hi, left.carry))

WithCarry(r) == BigTrim(IF r.carry > 0 THEN Append(r.out, r.carry) ELSE r.out)

Normalised(raw) == WithCarry(CarryRange(raw, 1, Len(raw), 0))

BigAdd(a, b) ==
    Normalised([i \in 1..Max(Len(a), Len(b)) |-> Limb(a, i) + Limb(b, i)] \o <<>>)

\* a - b for a >= b
BigSub(a, b) == Normalised([i \in 1..Len(a) |-> a[i] - Limb(b, i)] \o <<>>)

BigLess(a, b) ==
    \/ Len(a) < Len(b)
    \/ /\ Len(a) = Len(b)
       /\ \E i \in 1..Len(a) : a[i] < b[i] /\ \A j \in (i + 1)..Len(a) : a[j] = b[j]

\* a * c for a limb c
BigMulSmall(a, c) == Normalised([i \in 1..Len(a) |-> a[i] * c] \o <<>>)

\* a * Base^q
ShiftLimbs(a, q) == IF a = <<>> THEN <<>> ELSE [i \in 1..q |-> 0] \o a

RECURSIVE MulRange(_, _, _, _)
MulRange(a, b, lo, hi) ==
    IF lo > hi THEN <<>>
    ELSE IF lo = hi THEN BigMulSmall(a, b[lo])
    ELSE BigAdd(MulRange(a, b, lo, (lo + hi) \div 2),
                ShiftLimbs(MulRange(a, b, (lo + hi) \div 2 + 1, hi), (lo + hi) \div 2 + 1 - lo))

BigMul(a, b) == MulRange(a, b, 1, Len(b))

BigSquare(a) == IF Len(a) = 0 THEN <<>> ELSE BigMul(a, a)

\* a * 2^s
BigShl(a, s) ==
    IF s = 0 THEN a
    ELSE ShiftLimbs(BigMulSmall(a, TwoTo(s % LimbBits)), s \div LimbBits)

DropBits(a, q, r) ==
    IF q >= Len(a)
    THEN <<>>
    ELSE BigTrim([i \in 1..(Len(a) - q) |->
                     (a[i + q] \div TwoTo(r))
                     + (Limb(a, i + q + 1) % TwoTo(r)) * TwoTo(LimbBits - r)] \o <<>>)

\* a \div 2^s
BigShr(a, s) == IF s = 0 THEN a ELSE DropBits(a, s \div LimbBits, s % LimbBits)

BigBitLen(a) == IF a = <<>> THEN 0 ELSE LimbBits * (Len(a) - 1) + BitLenSmall(a[Len(a)])

\* bit i of a, bit 0 the lowest
BigBit(a, i) == (Limb(a, i \div LimbBits + 1) \div TwoTo(i % LimbBits)) % 2

\* the s lowest bits of a are all 0
BigLowZero(a, s) ==
    /\ \A i \in 1..(s \div LimbBits) : Limb(a, i) = 0
    /\ Limb(a, s \div LimbBits + 1) % TwoTo(s % LimbBits) = 0

LowestLimb(a) == CHOOSE i \in 1..Len(a) : a[i] # 0 /\ \A j \in 1..(i - 1) : a[j] = 0

\* number of 0 bits at the low end of a, for a > 0
BigTrailingZeros(a) == LimbBits * (LowestLimb(a) - 1) + TrailingZerosSmall(a[LowestLimb(a)])

RECURSIVE BigPow10(_)
BigPow10(k) ==
    IF k = 0 THEN <<1>>
    ELSE IF k % 2 = 1 THEN BigMulSmall(BigPow10(k - 1), 10)
    ELSE BigSquare(BigPow10(k \div 2))

\* quotient and remainder of r by d, the quotient below 2^(i + 1): one bit
\* of the quotient at a time, the highest first
RECURSIVE DivLoop(_, _, _, _)
DivLoop(r, d, i, q) ==
    IF i < 0 \/ Len(q) < 0 THEN [quot |-> q, rem |-> r]
    ELSE IF BigLess(r, BigShl(d, i)) THEN DivLoop(r, d, i - 1, BigMulSmall(q, 2))
    ELSE DivLoop(BigSub(r, BigShl(d, i)), d, i - 1, BigAdd(BigMulSmall(q, 2), <<1>>))

\* quotient and remainder of a by a divisor c of one limb: one limb of the
\* quotient at a time, the highest first
RECURSIVE DivSmall(_, _, _, _, _)
DivSmall(a, c, i, rem, q) ==
    IF i = 0 \/ rem < 0 \/ Len(q) < 0
    THEN [quot |-> BigTrim(q), rem |-> IF rem = 0 THEN <<>> ELSE <<rem>>]
    ELSE DivSmall(a, c, i - 1, (rem * Base + a[i]) % c,
                  <<(rem * Base + a[i]) \div c>> \o q)

BigDivMod(a, d) ==
    IF Len(d) = 1 THEN DivSmall(a, d[1], Len(a), 0, <<>>)
    ELSE DivLoop(a, d, BigBitLen(a) - BigBitLen(d), <<>>)

(***************************************************************************)
(* Python floats: IEEE 754 doubles, 53 bits of significand, exponents of    *)
(* the lowest bit from -1074 to 971.                                        *)
(***************************************************************************)
\* 0.0 and -0.0
SignedZero(neg) == [kind |-> "num", neg |-> neg, mant |-> <<>>, exp |-> 0]
Zero == SignedZero(FALSE)
Inf(neg) == [kind |-> "inf", neg |-> neg, mant |-> <<>>, exp |-> 0]
NotANumber == [kind |-> "nan", neg |-> FALSE, mant |-> <<>>, exp |-> 0]

IsFinite(a) == a.kind = "num"
IsZero(a) == a.kind = "num" /\ a.mant = <<>>

Lowest(neg, n, e, tz) == [kind |-> "num", neg |-> neg, mant |-> BigShr(n, tz), exp |-> e + tz]

\* the float of the value n * 2^e, which a double holds exactly
Canon(neg, n, e) ==
    IF n = <<>> THEN SignedZero(neg)
    ELSE IF e >= 0 THEN [kind |-> "num", neg |-> neg, mant |-> BigShl(n, e), exp |-> 0]
    ELSE Lowest(neg, n, e, Min(BigTrailingZeros(n), -e))

\* a value of 2^1024 or more is beyond the doubles: the result is an infinity
Overflowed(neg, n, e) == IF BigBitLen(n) + e > 1024 THEN Inf(neg) ELSE Canon(neg, n, e)

\* n * 2^e (and a little more when sticky) with its shift lowest bits
\* rounded away: to nearest, a tie to the even neighbour
Rounded(neg, n, e, sticky, shift) ==
    IF shift = 0
    THEN Overflowed(neg, n, e)
    ELSE Overflowed(neg,
                    IF /\ BigBit(n, shift - 1) = 1
                       /\ (sticky \/ ~ BigLowZero(n, shift - 1) \/ BigBit(n, shift) = 1)
                    THEN BigAdd(BigShr(n, shift), <<1>>)
                    ELSE BigShr(n, shift),
                    e + shift)

\* the double nearest to n * 2^e: 53 bits are kept, fewer when the lowest
\* bit would lie below 2^-1074
RoundDyadic(neg, n, e, sticky) ==
    Rounded(neg, n, e, sticky, Max(Max(BigBitLen(n) - 53, (-1074) - e), 0))

Quotient(neg, qr, s) == RoundDyadic(neg, qr.quot, -s, qr.rem # <<>>)

\* the double nearest to m / d, from a quotient of 55 bits or more
Scaled(neg, m, d, s) ==
    IF s >= 0
    THEN Quotient(neg, BigDivMod(BigShl(m, s), d), s)
    ELSE Quotient(neg, BigDivMod(m, BigShl(d, -s)), s)

Fraction(neg, m, d) == Scaled(neg, m, d, BigBitLen(d) + 55 - BigBitLen(m))

\* m < 10^DecimalUpper(m) and m >= 10^DecimalLower(m)
DecimalUpper(m) == (BigBitLen(m) * 31) \div 100 + 1
DecimalLower(m) == ((BigBitLen(m) - 1) * 3) \div 10

\* the double nearest to m * 10^e10: 0 when the value is too small for a
\* double, an infinity when it is too large
FromDecimal(neg, m, e10) ==
    IF m = <<>> THEN SignedZero(neg)
    ELSE IF DecimalUpper(m) + e10 < -330 THEN SignedZero(neg)
    ELSE IF DecimalLower(m) + e10 > 310 THEN Inf(neg)
    ELSE IF e10 >= 0 THEN RoundDyadic(neg, BigMul(m, BigPow10(e10)), 0, FALSE)
    ELSE Fraction(neg, m, BigPow10(-e10))

\* float(n) of a whole number n
Whole(n) == Canon(n < 0, BigFromNat(IF n < 0 THEN -n ELSE n), 0)

\* -a
FloatNeg(a) == IF a.kind = "nan" THEN a ELSE [a EXCEPT !.neg = ~ a.neg]

\* abs(a)
FloatAbs(a) == [a EXCEPT !.neg = FALSE]

\* the float nearest to the sum of x * 2^e, negated when xneg, and
\* y * 2^e, negated when yneg; two values that cancel give 0.0
AddMagnitudes(xneg, x, yneg, y, e) ==
    IF xneg = yneg THEN RoundDyadic(xneg, BigAdd(x, y), e, FALSE)
    ELSE IF x = y THEN Zero
    ELSE IF BigLess(x, y) THEN RoundDyadic(yneg, BigSub(y, x), e, FALSE)
    ELSE RoundDyadic(xneg, BigSub(x, y), e, FALSE)

\* the sum of two finite floats, e the lower of their exponents
AddAligned(a, b, e) ==
    AddMagnitudes(a.neg, BigShl(a.mant, a.exp - e), b.neg, BigShl(b.mant, b.exp - e), e)

\* a + b
FloatAdd(a, b) ==
    IF a.kind = "nan" \/ b.kind = "nan" THEN NotANumber
    ELSE IF a.kind = "inf" /\ b.kind = "inf" THEN (IF a.neg = b.neg THEN a ELSE NotANumber)
    ELSE IF a.kind = "inf" THEN a
    ELSE IF b.kind = "inf" THEN b
    ELSE AddAligned(a, b, Min(a.exp, b.exp))

\* a - b
FloatSub(a, b) == FloatAdd(a, FloatNeg(b))

\* a * b
FloatMul(a, b) ==
    IF a.kind = "nan" \/ b.kind = "nan" THEN NotANumber
    ELSE IF a.kind = "inf" \/ b.kind = "inf"
    THEN (IF IsZero(a) \/ IsZero(b) THEN NotANumber ELSE Inf(a.neg # b.neg))
    ELSE RoundDyadic(a.neg # b.neg, BigMul(a.mant, b.mant), a.exp + b.exp, FALSE)

\* |a| < |b| for two finite floats, e the lower of their exponents
MagnitudeLess(a, b, e) == BigLess(BigShl(a.mant, a.exp - e), BigShl(b.mant, b.exp - e))

\* a < b
FloatLess(a, b) ==
    IF a.kind = "nan" \/ b.kind = "nan" THEN FALSE
    ELSE IF a = b THEN FALSE
    ELSE IF a.kind = "inf" THEN a.neg
    ELSE IF b.kind = "inf" THEN ~ b.neg
    ELSE IF a.neg # b.neg THEN a.neg /\ ~ (IsZero(a) /\ IsZero(b))
    ELSE IF a.neg THEN MagnitudeLess(b, a, Min(a.exp, b.exp))
    ELSE MagnitudeLess(a, b, Min(a.exp, b.exp))

\* a == b: -0.0 equals 0.0, nan equals nothing
FloatEq(a, b) == a.kind # "nan" /\ b.kind # "nan" /\ (a = b \/ (IsZero(a) /\ IsZero(b)))

\* int(a) of a finite a: the fraction is cut.  int() of an infinity raises
\* OverflowError and int() of nan raises ValueError.
FloatTrunc(a) ==
    IF BigShr(a.mant, -a.exp) = <<>> THEN Zero ELSE Canon(a.neg, BigShr(a.mant, -a.exp), 0)

\* Python max(a, b): b when b > a, else a
PyMax(a, b) == IF FloatLess(a, b) THEN b ELSE a

(***************************************************************************)
(* Text helpers: str.strip(), str(int), float(str).                        *)
(***************************************************************************)
DigitChars == <<"0", "1", "2", "3", "4", "5", "6", "7", "8", "9">>

IsDigit(c) == \E i \in 1..10 : DigitChars[i] = c

DigitVal(c) == (CHOOSE i \in 1..10 : DigitChars[i] = c) - 1

\* the characters str.strip() removes that a text of the model can hold:
\* blank, tab, line feed, carriage return, form feed, and (written as the
\* characters themselves) vertical tab, the separators U+001C..U+001F, next
\* line U+0085 and the no-break space U+00A0.  The whitespace of Unicode
\* beyond U+00FF (U+1680, U+2000..U+200A, U+2028, U+2029, U+202F, U+205F,
\* U+3000) is not in the alphabet of the model.
WhitespaceChars ==
    {" ", "\t", "\n", "\r", "\f", "", "", "", "", "", "", " "}

\* str.isspace() of one character
IsSpace(c) == c \in WhitespaceChars

\* s without the characters of cs at its left end
RECURSIVE DropLeft(_, _)
DropLeft(s, cs) == IF s # <<>> /\ Head(s) \in cs THEN DropLeft(Tail(s), cs) ELSE s

\* s without the characters of cs at its right end
RECURSIVE DropRight(_, _)
DropRight(s, cs) ==
    IF s # <<>> /\ s[Len(s)] \in cs THEN DropRight(SubSeq(s, 1, Len(s) - 1), cs) ELSE s

\* str.lstrip()
LStrip(s) == DropLeft(s, WhitespaceChars)

\* str.rstrip()
RStrip(s) == DropRight(s, WhitespaceChars)

\* str.strip()
Strip(s) == RStrip(LStrip(s))

\* the whitespace float() skips around a literal: that of str.strip() but
\* for the separators U+001C..U+001F
FloatWhitespaceChars == WhitespaceChars \ {"", "", "", ""}

RECURSIVE NatToStr(_)
NatToStr(n) ==
    IF n < 10 THEN <<DigitChars[n + 1]>>
    ELSE NatToStr(n \div 10) \o <<DigitChars[(n % 10) + 1]>>

\* str(int(n))
IntToStr(n) == IF n < 0 THEN <<"-">> \o NatToStr(-n) ELSE NatToStr(n)

RECURSIVE DigitsToNat(_, _)
DigitsToNat(s, acc) ==
    IF s = <<>> THEN acc ELSE DigitsToNat(Tail(s), 10 * acc + DigitVal(Head(s)))

AllDigits(s) == s # <<>> /\ \A i \in 1..Len(s) : IsDigit(s[i])

\* index of the first character of s that is in the set cs; 0: none
FirstOf(s, cs) ==
    IF \E i \in 1..Len(s) : s[i] \in cs
    THEN CHOOSE i \in 1..Len(s) : s[i] \in cs /\ \A j \in 1..(i - 1) : s[j] \notin cs
    ELSE 0

\* str.lower() on the letters of inf, infinity and nan
LowerChar(c) ==
    CASE c = "I" -> "i" [] c = "N" -> "n" [] c = "F" -> "f" [] c = "T" -> "t"
      [] c = "Y" -> "y" [] c = "A" -> "a" [] OTHER -> c

Lower(s) == [i \in 1..Len(s) |-> LowerChar(s[i])]

\* an underscore of a float literal stands between two digits
UnderscoresBetweenDigits(s) ==
    \A i \in 1..Len(s) :
        s[i] = "_" => i > 1 /\ i < Len(s) /\ IsDigit(s[i - 1]) /\ IsDigit(s[i + 1])

\* a float literal without its underscores
WithoutUnderscores(body) ==
    LET notUnderscore(c) == c # "_"
    IN  SelectSeq(body, notUnderscore)

\* the text before the exponent mark e or E
MantissaText(u) ==
    IF FirstOf(u, {"e", "E"}) = 0 THEN u ELSE SubSeq(u, 1, FirstOf(u, {"e", "E"}) - 1)

\* the text behind the exponent mark; <<>> also when there is no mark
ExponentText(u) ==
    IF FirstOf(u, {"e", "E"}) = 0 THEN <<>>
    ELSE SubSeq(u, FirstOf(u, {"e", "E"}) + 1, Len(u))

\* a text without the sign it starts with
Unsigned(t) == IF t # <<>> /\ Head(t) \in {"-", "+"} THEN Tail(t) ELSE t

\* the digits before and behind the decimal point of a mantissa
IntegerPart(mant) ==
    IF FirstOf(mant, {"."}) = 0 THEN mant ELSE SubSeq(mant, 1, FirstOf(mant, {"."}) - 1)

FractionPart(mant) ==
    IF FirstOf(mant, {"."}) = 0 THEN <<>>
    ELSE SubSeq(mant, FirstOf(mant, {"."}) + 1, Len(mant))

DigitsOrEmpty(x) == \A i \in 1..Len(x) : IsDigit(x[i])

\* body is digits with a decimal point before, between or after them, and
\* an exponent of digits with its own sign when there is an exponent mark
WellFormedFloat(body) ==
    /\ UnderscoresBetweenDigits(body)
    /\ DigitsOrEmpty(IntegerPart(MantissaText(WithoutUnderscores(body))))
    /\ DigitsOrEmpty(FractionPart(MantissaText(WithoutUnderscores(body))))
    /\ Len(IntegerPart(MantissaText(WithoutUnderscores(body))))
         + Len(FractionPart(MantissaText(WithoutUnderscores(body)))) >= 1
    /\ \/ FirstOf(WithoutUnderscores(body), {"e", "E"}) = 0
       \/ AllDigits(Unsigned(ExponentText(WithoutUnderscores(body))))

\* the digits s as a natural number of any size, behind the digits of acc
RECURSIVE DigitsToBig(_, _)
DigitsToBig(s, acc) ==
    IF s = <<>> \/ Len(acc) < 0 THEN acc
    ELSE DigitsToBig(Tail(s), BigAdd(BigMulSmall(acc, 10), BigFromNat(DigitVal(Head(s)))))

\* the size of an exponent that lies beyond every double, whatever the
\* mantissa of the literal
ExponentCap == 1000000

\* the exponent of a well-formed literal, cut at ExponentCap; 0 when it has
\* none
ExponentSize(digits) ==
    IF Len(DropLeft(digits, {"0"})) > 6 THEN ExponentCap
    ELSE DigitsToNat(DropLeft(digits, {"0"}), 0)

ExponentValue(expo) ==
    IF expo = <<>> THEN 0
    ELSE IF Head(expo) = "-" THEN -ExponentSize(Unsigned(expo))
    ELSE ExponentSize(Unsigned(expo))

\* the digits of the mantissa of a well-formed literal, as a number
MantissaDigits(body) ==
    DigitsToBig(IntegerPart(MantissaText(WithoutUnderscores(body)))
                  \o FractionPart(MantissaText(WithoutUnderscores(body))), <<>>)

\* the value of a well-formed literal: the double nearest to it; negative:
\* the literal follows a minus sign
FloatValue(body, negative) ==
    FromDecimal(negative, MantissaDigits(body),
                ExponentValue(ExponentText(WithoutUnderscores(body)))
                  - Len(FractionPart(MantissaText(WithoutUnderscores(body)))))

\* float(s): [ok, val]; ok = FALSE is ValueError.  float() skips the
\* whitespace around the literal and accepts: one sign; digits with a
\* decimal point before, between or after them; an exponent e or E with its
\* own sign; single underscores between digits; inf, infinity and nan in
\* either case.
ParseFloat(s) ==
    LET t == DropRight(DropLeft(s, FloatWhitespaceChars), FloatWhitespaceChars)
        negative == t # <<>> /\ Head(t) = "-"
    IN  IF Lower(Unsigned(t)) \in {<<"i", "n", "f">>,
                                   <<"i", "n", "f", "i", "n", "i", "t", "y">>}
        THEN [ok |-> TRUE, val |-> Inf(negative)]
        ELSE IF Lower(Unsigned(t)) = <<"n", "a", "n">>
        THEN [ok |-> TRUE, val |-> NotANumber]
        ELSE IF WellFormedFloat(Unsigned(t))
        THEN [ok |-> TRUE, val |-> FloatValue(Unsigned(t), negative)]
        ELSE [ok |-> FALSE, val |-> Zero]

(***************************************************************************)
(* Spreadsheet cells.  kind = "nan" is an empty cell as pandas reads it,   *)
(* "num" a numeric cell holding the whole number num, "str" a text cell.   *)
(***************************************************************************)
NaN == [kind |-> "nan", num |-> 0, str |-> <<>>]
Num(n) == [kind |-> "num", num |-> n, str |-> <<>>]
Str(s) == [kind |-> "str", num |-> 0, str |-> s]

\* safe_str_convert(value)
safe_str_convert(value) ==
    IF value.kind = "nan" THEN <<>>
    ELSE IF value.kind = "num" THEN IntToStr(value.num)
    ELSE Strip(value.str)

\* safe_num_convert(value, default)
safe_num_convert(value, default) ==
    IF value.kind = "nan" \/ value = Str(<<>>) THEN default
    ELSE IF value.kind = "str"
         THEN IF Strip(value.str) = <<>> THEN default
              ELSE IF ParseFloat(Strip(value.str)).ok
                   THEN ParseFloat(Strip(value.str)).val
                   ELSE default
         ELSE Whole(value.num)

(***************************************************************************)
(* Input domains.                                                          *)
(***************************************************************************)
\* keys of CATEGORIES offered by the selectboxes (every key but "00")
Categories == {"01", "02"}

\* the labels of the columns the import reads, each a text: '상품코드',
\* '상품명', '매가', '재고수량', '이월수량' and '추천재고수량'
Column ==
    [code |-> <<"c", "o", "d", "e">>,
     name |-> <<"n", "a", "m", "e">>,
     price |-> <<"p", "r", "i", "c", "e">>,
     stock |-> <<"s", "t", "o", "c", "k">>,
     carry |-> <<"c", "a", "r", "r", "y">>,
     recommended |-> <<"r", "e", "c">>]

\* header rows of the uploaded spreadsheets, as read_excel yields them (no
\* two headers of a sheet are the same text), each of six columns: every
\* column the import reads; the name column missing; the code column
\* missing; the legacy carry column and no other quantity; a second on-hand
\* column whose header ends in a blank; a second carry column whose header
\* ends in a blank, next to the on-hand column
HeaderInputs ==
    LET memo == <<"m", "e", "m", "o">>
        unit == <<"u", "n", "i", "t">>
        note == <<"n", "o", "t", "e">>
    IN  { <<Column.code, Column.name, Column.price, Column.stock, Column.carry,
            Column.recommended>>,
          <<Column.code, memo, Column.price, Column.stock, unit, note>>,
          <<memo, Column.name, unit, Column.stock, note, Column.recommended>>,
          <<Column.code, Column.name, memo, unit, Column.carry, note>>,
          <<Column.code, Column.name, Column.price, Column.stock,
            Column.stock \o <<" ">>, Column.recommended>>,
          <<Column.code, Column.name, Column.price, Column.stock, Column.carry,
            Column.carry \o <<" ">>>> }

\* data rows of the uploaded spreadsheets: one cell under each of the six
\* headers
RowInputs ==
    { \* plain row, sixth cell empty
      <<Str(<<"A">>), Str(<<"n">>), Num(100), Num(5), Num(2), NaN>>,
      \* first cell to be stripped of a tab, text in the third, a negative
      \* number in the fourth
      <<Str(<<"\t", "A">>), Str(<<"n">>), Str(<<"x">>), Num(-2), NaN, Num(4)>>,
      \* a number in the first cell, numeric text with a decimal point in
      \* the fourth, a number that is no whole number in the fifth, 0 in
      \* the sixth
      <<Num(7), Str(<<"m", " ">>), NaN, Str(<<" ", "3", ".", "0">>),
        Str(<<"4", ".", "5">>), Num(0)>>,
      \* blank first cell
      <<Str(<<" ">>), Str(<<"n">>), Num(100), Num(1), Num(1), Num(4)>>,
      \* second cell empty, the text inf in the fourth, sixth cell empty
      <<Num(7), NaN, Num(100), Str(<<"i", "n", "f">>), Num(1), NaN>> }

RowSeqs == UNION { [1..n -> RowInputs] : n \in 0..MaxRows }

\* a file pd.read_excel cannot read (no workbook, a damaged one)
Unreadable == [columns |-> <<>>, rows |-> <<>>, readable |-> FALSE]

\* the spreadsheets a user may upload
Files ==
    { [columns |-> h, rows |-> r, readable |-> TRUE] : h \in HeaderInputs, r \in RowSeqs }
      \cup {Unreadable}

NoFile == [columns |-> <<>>, rows |-> <<>>, readable |-> TRUE]

\* the spreadsheets uploaded in a session of every handler: two new
\* products; the same code twice, one with a negative quantity; the name
\* column missing; no row with a code; the legacy carry column, holding a
\* quantity that is no whole number; an infinite quantity
SessionFiles ==
    LET a5 == <<Str(<<"A">>), Str(<<"n">>), Num(100), Num(5), Num(2), NaN>>
        aNeg == <<Str(<<"\t", "A">>), Str(<<"n">>), Str(<<"x">>), Num(-2), NaN, Num(4)>>
        s3 == <<Num(7), Str(<<"m", " ">>), NaN, Str(<<" ", "3", ".", "0">>),
                Str(<<"4", ".", "5">>), Num(0)>>
        blank == <<Str(<<" ">>), Str(<<"n">>), Num(100), Num(1), Num(1), Num(4)>>
        aInf == <<Str(<<"A">>), Str(<<"n">>), Num(100), Str(<<"i", "n", "f">>), NaN, Num(4)>>
        memo == <<"m", "e", "m", "o">>
        unit == <<"u", "n", "i", "t">>
        note == <<"n", "o", "t", "e">>
        all == <<Column.code, Column.name, Column.price, Column.stock, Column.carry,
                 Column.recommended>>
    IN  { [columns |-> all, rows |-> <<a5, s3>>, readable |-> TRUE],
          [columns |-> all, rows |-> <<aNeg, a5>>, readable |-> TRUE],
          [columns |-> <<Column.code, memo, Column.price, Column.stock, unit, note>>,
           rows |-> <<a5>>, readable |-> TRUE],
          [columns |-> all, rows |-> <<blank>>, readable |-> TRUE],
          [columns |-> <<Column.code, Column.name, memo, unit, Column.carry, note>>,
           rows |-> <<s3>>, readable |-> TRUE],
          [columns |-> all, rows |-> <<aInf>>, readable |-> TRUE] }

\* the category the selectbox stands at when a spreadsheet of such a session
\* is uploaded: the first for the spreadsheets of two rows, the second for
\* the others
SessionCategory(f) == IF Len(f.rows) = 2 THEN "01" ELSE "02"

\* registration forms: text_input and number_input values
\* (number_input(min_value=0, step=1) yields whole numbers >= 0)
RegisterForms ==
    LET form(code, name, category, price, stock, recommend) ==
            [code |-> code, name |-> name, category |-> category, price |-> price,
             stock |-> stock, recommend |-> recommend]
    IN  { form(<<"A">>, <<"n">>, "01", 100, 5, 0),
          form(<<"A">>, <<"n">>, "01", 100, 0, 4),
          form(<<"7">>, <<"m">>, "02", 200, 25, 0),
          form(<<"7">>, <<"m">>, "02", 200, 2, 0),
          form(<<>>, <<"n">>, "01", 100, 5, 0),
          form(<<"A">>, <<>>, "01", 100, 5, 0) }

\* product codes used in calls
CodeInputs == {<<"A">>, <<"7">>}
\* stock adjustment form: number_input("수량", min_value=1)
QtyInputs == {1, 3}
\* number_input("새 재고량", min_value=0)
NewStockInputs == {0, 3}
\* number_input("배수", min_value=1.0, max_value=5.0, step=0.1), in tenths:
\* the default 1.5, 2.0, and 4.6, whose float lies below 4.6
MultiplierInputs == {15, 20, 46}

\* the float of a multiplier given in tenths
TenthsValue(multiplier) == FromDecimal(FALSE, BigFromNat(multiplier), -1)

\* the floats of the multipliers from 1.0 to 5.0, computed once
MultiplierFloats == [m \in 10..50 |-> TenthsValue(m)]

Tenths(multiplier) ==
    IF multiplier \in DOMAIN MultiplierFloats THEN MultiplierFloats[multiplier]
    ELSE TenthsValue(multiplier)

(***************************************************************************)
(* Spreadsheet processing.                                                 *)
(***************************************************************************)
\* clean_excel_data(df): fillna("") turns every empty cell into the empty
\* text, line 116 strips every header (two headers that differ in blanks
\* around them become the same label), and dropna(how='all') then finds
\* nothing to drop
clean_excel_data(df) ==
    [columns |-> [k \in 1..Len(df.columns) |-> Strip(df.columns[k])],
     readable |-> df.readable,
     rows |-> [i \in 1..Len(df.rows) |->
                 [k \in 1..Len(df.rows[i]) |->
                    IF df.rows[i][k].kind = "nan" THEN Str(<<>>) ELSE df.rows[i][k]]]]

\* the columns of the DataFrame that bear the label; col in df.columns:
\* there is one
Positions(df, col) == {k \in 1..Len(df.columns) : df.columns[k] = col}

\* the cell of a row under the label, for a label that one column bears
CellOf(df, r, col) == r[CHOOSE k \in Positions(df, col) : TRUE]

\* lines 143-154 raise: a label they index (the code, the name, the price
\* and the recommended quantity when the sheet has them, the on-hand
\* quantity or, without it, the carry quantity) is borne by several columns,
\* so df[col] is a DataFrame, its .apply() yields one value per column under
\* the repeated label, and pd.DataFrame() cannot align that with the rows
ResultRaises(df) ==
    \E col \in {Column.code, Column.name, Column.price, Column.recommended,
                IF Positions(df, Column.stock) # {} THEN Column.stock ELSE Column.carry} :
        Cardinality(Positions(df, col)) > 1

\* the float 1.5
OneAndAHalf == FromDecimal(FALSE, <<15>>, -1)

\* int(x * 1.5) raises: OverflowError for an infinite product, ValueError
\* for nan
DefaultRecommendRaises(x) == ~ IsFinite(FloatMul(x, OneAndAHalf))

\* the default of the recommended quantity with the floor of 5 left out
DefaultRecommend_nofloor(x) == FloatTrunc(FloatMul(x, OneAndAHalf))

\* the default of the recommended quantity: max(int(x * 1.5), 5)
DefaultRecommend(x) == PyMax(FloatTrunc(FloatMul(x, OneAndAHalf)), Whole(5))

\* one row of the result DataFrame of process_inventory_excel, before the
\* default of the recommended quantity is filled in
ConvertRow(df, r, category_code) ==
    [code |-> safe_str_convert(CellOf(df, r, Column.code)),
     name |-> safe_str_convert(CellOf(df, r, Column.name)),
     category |-> category_code,
     price |-> safe_num_convert(
                 IF Positions(df, Column.price) # {} THEN CellOf(df, r, Column.price)
                 ELSE Num(0), Zero),
     stock |-> safe_num_convert(
                 IF Positions(df, Column.stock) # {} THEN CellOf(df, r, Column.stock)
                 ELSE IF Positions(df, Column.carry) # {} THEN CellOf(df, r, Column.carry)
                 ELSE Num(0), Zero),
     recommended |-> safe_num_convert(
                 IF Positions(df, Column.recommended) # {}
                 THEN CellOf(df, r, Column.recommended)
                 ELSE Num(0), Zero)]

\* result.loc[mask, recommended] = max(int(stock * 1.5), 5) where recommended == 0
FillRecommend(row) ==
    IF FloatEq(row.recommended, Zero)
    THEN [row EXCEPT !.recommended = DefaultRecommend(row.stock)]
    ELSE row

\* the lambda of line 159 raises on the row: its recommended quantity is 0
\* and int() cannot cut the product
FillRaises(row) == FloatEq(row.recommended, Zero) /\ DefaultRecommendRaises(row.stock)

ValidRow(row) == Len(row.code) > 0 /\ Len(row.name) > 0

\* lines 143-154: the result DataFrame before the default is filled in
ConvertedRows(df, category_code) ==
    [i \in 1..Len(df.rows) |-> ConvertRow(df, df.rows[i], category_code)]

\* lines 157-160: the result DataFrame with the default filled in
FilledRows(converted) == [i \in 1..Len(converted) |-> FillRecommend(converted[i])]

\* the return without the check for an empty result
FilteredResult_noemptycheck(valid) == [data |-> valid, error |-> "none"]

\* lines 168-171: what is returned for the rows that have a code and a name
FilteredResult(valid) ==
    IF valid = <<>>
    THEN [data |-> <<>>, error |-> "no valid data"]
    ELSE [data |-> valid, error |-> "none"]

\* lines 157-175: the default is filled in, which raises on a row on which
\* int() raises (before the rows without code or name are dropped), and the
\* rows with code and name are kept
ProcessConverted(converted) ==
    IF \E i \in 1..Len(converted) : FillRaises(converted[i])
    THEN [data |-> <<>>, error |-> "processing error"]
    ELSE FilteredResult(SelectSeq(FilledRows(converted), ValidRow))

\* lines 133-175: the function from the cleaned DataFrame on
ProcessCleaned(df, category_code) ==
    IF df.rows = <<>> \/ df.columns = <<>>
    THEN [data |-> <<>>, error |-> "no data"]
    ELSE IF Positions(df, Column.code) = {} \/ Positions(df, Column.name) = {}
    THEN [data |-> <<>>, error |-> "missing columns"]
    ELSE IF ResultRaises(df)
    THEN [data |-> <<>>, error |-> "processing error"]
    ELSE ProcessConverted(ConvertedRows(df, category_code))

\* process_inventory_excel(file, category_code): [data, error], error = "none"
\* standing for None.  "processing error" is the except branch: read_excel
\* raised on the file, the result DataFrame could not be built, or the
\* default of the recommended quantity raised on a row.
process_inventory_excel(file, category_code) ==
    IF ~ file.readable
    THEN [data |-> <<>>, error |-> "processing error"]
    ELSE ProcessCleaned(clean_excel_data(file), category_code)

(***************************************************************************)
(* Ledger.                                                                 *)
(***************************************************************************)
\* code in inventory['상품코드'].values
HasCode(table, code) == \E i \in 1..Len(table) : table[i].code = code

\* inventory[inventory['상품코드'] == code].index[0]: the first matching row
FirstIndex(table, code) ==
    CHOOSE i \in 1..Len(table) :
        table[i].code = code /\ \A j \in 1..(i - 1) : table[j].code # code

\* add_transaction with pd.concat([new_trans, transactions]): the new
\* record goes in front of the log
add_transaction_prepend(log, trans_type, code, name, qty, before, after) ==
    <<[type |-> trans_type, code |-> code, name |-> name,
       qty |-> FloatAbs(qty), before |-> before, after |-> after]>> \o log

\* add_transaction without abs() on the quantity
add_transaction_signed(log, trans_type, code, name, qty, before, after) ==
    Append(log, [type |-> trans_type, code |-> code, name |-> name,
                 qty |-> qty, before |-> before, after |-> after])

\* add_transaction with before and after exchanged
add_transaction_swapped(log, trans_type, code, name, qty, before, after) ==
    Append(log, [type |-> trans_type, code |-> code, name |-> name,
                 qty |-> FloatAbs(qty), before |-> after, after |-> before])

\* add_transaction(trans_type, code, name, qty, before, after) on the log
add_transaction(log, trans_type, code, name, qty, before, after) ==
    Append(log, [type |-> trans_type, code |-> code, name |-> name,
                 qty |-> FloatAbs(qty), before |-> before, after |-> after])

\* update_stock logging the call whether or not the table holds the code
update_stock_logs_unknown(code, change, trans_type) ==
    IF HasCode(inventory, code)
    THEN LET idx == FirstIndex(inventory, code)
             before == inventory[idx].stock
             after == PyMax(Zero, FloatAdd(before, change))
         IN  [inventory |-> [inventory EXCEPT ![idx].stock = after],
              transactions |-> add_transaction(transactions, trans_type, code,
                                               inventory[idx].name, change, before, after),
              ret |-> TRUE]
    ELSE [inventory |-> inventory,
          transactions |-> add_transaction(transactions, trans_type, code,
                                           <<>>, change, Zero, PyMax(Zero, change)),
          ret |-> FALSE]

\* update_stock with the clamp at 0 left out
update_stock_unclamped(code, change, trans_type) ==
    IF HasCode(inventory, code)
    THEN LET idx == FirstIndex(inventory, code)
             before == inventory[idx].stock
             after == FloatAdd(before, change)
         IN  [inventory |-> [inventory EXCEPT ![idx].stock = after],
              transactions |-> add_transaction(transactions, trans_type, code,
                                               inventory[idx].name, change, before, after),
              ret |-> TRUE]
    ELSE [inventory |-> inventory, transactions |-> transactions, ret |-> FALSE]

\* update_stock refusing a change that would take the quantity below 0
update_stock_rejects_oversell(code, change, trans_type) ==
    IF HasCode(inventory, code)
         /\ ~ FloatLess(FloatAdd(inventory[FirstIndex(inventory, code)].stock, change), Zero)
    THEN LET idx == FirstIndex(inventory, code)
             before == inventory[idx].stock
             after == FloatAdd(before, change)
         IN  [inventory |-> [inventory EXCEPT ![idx].stock = after],
              transactions |-> add_transaction(transactions, trans_type, code,
                                               inventory[idx].name, change, before, after),
              ret |-> TRUE]
    ELSE [inventory |-> inventory, transactions |-> transactions, ret |-> FALSE]

\* update_stock(code, change, trans_type): the two tables after the call
\* and the value returned.  max(0, x) is 0 unless x > 0, also for nan.
update_stock(code, change, trans_type) ==
    IF HasCode(inventory, code)
    THEN LET idx == FirstIndex(inventory, code)
             before == inventory[idx].stock
             after == PyMax(Zero, FloatAdd(before, change))
         IN  [inventory |-> [inventory EXCEPT ![idx].stock = after],
              transactions |-> add_transaction(transactions, trans_type, code,
                                               inventory[idx].name, change, before, after),
              ret |-> TRUE]
    ELSE [inventory |-> inventory, transactions |-> transactions, ret |-> FALSE]

(***************************************************************************)
(* get_low_stock_items: the reorder list.                                  *)
(***************************************************************************)
\* inventory[stock < recommended] with the shortage column added, in table
\* order; index is the row label the DataFrame keeps.  (The display label
\* of the category, read from CATEGORIES, is left out.)
LowStockRows(table) ==
    LET low(i) == FloatLess(table[i].stock, table[i].recommended)
        RECURSIVE From(_)
        From(i) ==
            IF i > Len(table) THEN <<>>
            ELSE IF low(i)
                 THEN <<[index |-> i, code |-> table[i].code, name |-> table[i].name,
                         category |-> table[i].category, price |-> table[i].price,
                         stock |-> table[i].stock,
                         recommended |-> table[i].recommended,
                         shortage |-> FloatSub(table[i].recommended, table[i].stock)]>>
                      \o From(i + 1)
                 ELSE From(i + 1)
    IN  From(1)

\* t with the entries at i and j exchanged
Swapped(t, i, j) == [t EXCEPT ![i] = t[j], ![j] = t[i]]

\* the index vi moves down from place pj, past every index of a larger key,
\* as far as place pl
RECURSIVE InsertDown(_, _, _, _, _)
InsertDown(v, t, vi, pl, pj) ==
    IF pj > pl /\ FloatLess(v[vi], v[t[pj - 1]])
    THEN InsertDown(v, [t EXCEPT ![pj] = t[pj - 1]], vi, pl, pj - 1)
    ELSE [t EXCEPT ![pj] = vi]

\* the insertion sort of the places pl..pr of the index array t by the keys
\* v, the places before pi being sorted
RECURSIVE InsertionSort(_, _, _, _, _)
InsertionSort(v, t, pl, pi, pr) ==
    IF pi > pr THEN t
    ELSE InsertionSort(v, InsertDown(v, t, t[pi], pl, pi), pl, pi + 1, pr)

\* the median of the keys at pl, pm and pr brought to pm: the indices at pm
\* and pl are exchanged when the key at pm is the smaller one, then those at
\* pr and pm, then those at pm and pl again
MedianOfThree(v, t, pl, pm, pr) ==
    LET ordered(s, a, b) == IF FloatLess(v[s[a]], v[s[b]]) THEN Swapped(s, a, b) ELSE s
    IN  ordered(ordered(ordered(t, pm, pl), pr, pm), pm, pl)

\* the first place above pi whose key is not below vp
RECURSIVE ScanUp(_, _, _, _)
ScanUp(v, t, vp, pi) ==
    IF FloatLess(v[t[pi + 1]], vp) THEN ScanUp(v, t, vp, pi + 1) ELSE pi + 1

\* the first place below pj whose key is not above vp
RECURSIVE ScanDown(_, _, _, _)
ScanDown(v, t, vp, pj) ==
    IF FloatLess(vp, v[t[pj - 1]]) THEN ScanDown(v, t, vp, pj - 1) ELSE pj - 1

\* the partition loop around the key vp: the index array when the two
\* scans have met, and the place pi where they met
RECURSIVE PartitionLoop(_, _, _, _, _)
PartitionLoop(v, t, vp, pi, pj) ==
    IF ScanUp(v, t, vp, pi) >= ScanDown(v, t, vp, pj)
    THEN [t |-> t, pi |-> ScanUp(v, t, vp, pi)]
    ELSE PartitionLoop(v, Swapped(t, ScanUp(v, t, vp, pi), ScanDown(v, t, vp, pj)),
                       vp, ScanUp(v, t, vp, pi), ScanDown(v, t, vp, pj))

\* ndarray.argsort(kind='quicksort') on the places pl..pr of the index array
\* t: numpy's quicksort of indices.  A range of more than 17 places
\* (pr - pl > SMALL_QUICKSORT, which is 16) is partitioned: m is the index
\* array with the median of the first, the middle and the last key at pm;
\* the pivot is parked at pr - 1, the loop runs, the pivot goes to the place
\* where the scans met, and both parts are sorted.  A shorter range is
\* sorted by insertion.  (The fall-back to heapsort after
\* 2 * floor(log2(n)) nested partitions is out of reach of the lists of
\* fewer than 36 rows.)
RECURSIVE aquicksort(_, _, _, _)
SortParts(v, m, pl, pm, pr) ==
    LET p == PartitionLoop(v, Swapped(m, pm, pr - 1), v[m[pm]], pl, pr - 1)
    IN  aquicksort(v, aquicksort(v, Swapped(p.t, p.pi, pr - 1), pl, p.pi - 1),
                   p.pi + 1, pr)

aquicksort(v, t, pl, pr) ==
    IF pr - pl > 16
    THEN SortParts(v, MedianOfThree(v, t, pl, pl + (pr - pl) \div 2, pr),
                   pl, pl + (pr - pl) \div 2, pr)
    ELSE InsertionSort(v, t, pl, pl + 1, pr)

\* nargsort of the keys with the smallest first: sort_values without
\* ascending=False
nargsort_ascending(keys) ==
    aquicksort(keys, [k \in 1..Len(keys) |-> k], 1, Len(keys))

\* pandas' nargsort(keys, kind='quicksort', ascending=False): the keys and
\* their positions are reversed, the reversed keys are argsorted, and the
\* positions in that order are reversed again (no shortage of a row with
\* on-hand < recommended is nan)
nargsort(keys) ==
    LET n == Len(keys)
        reversed == [k \in 1..n |-> keys[n + 1 - k]]
        sorted == aquicksort(reversed, [k \in 1..n |-> k], 1, n)
    IN  [k \in 1..n |-> n + 1 - sorted[n + 1 - k]]

\* low_stock.sort_values('부족수량', ascending=False): the call names no sort
\* kind, so pandas sorts with its default, quicksort
sort_values(rows) ==
    [k \in 1..Len(rows) |->
        rows[nargsort([i \in 1..Len(rows) |-> rows[i].shortage])[k]]]

\* get_low_stock_items()
get_low_stock_items ==
    IF inventory = <<>> THEN <<>>
    ELSE sort_values(LowStockRows(inventory))

(***************************************************************************)
(* What the last handler was called with and what it reported.             *)
(***************************************************************************)
NoCall ==
    [op |-> "init", result |-> "none", code |-> <<>>, name |-> <<>>,
     ttype |-> "none", qty |-> 0, rec |-> 0, category |-> "none",
     replace |-> FALSE, file |-> NoFile, error |-> "none", view |-> <<>>]

\* init_session()
Init ==
    /\ inventory = <<>>
    /\ transactions = <<>>
    /\ reset_inventory_count = 0
    /\ reset_trans_count = 0
    /\ last = NoCall
    /\ steps = 0

(***************************************************************************)
(* show_product_management, tab 1: the registration form.                  *)
(***************************************************************************)
\* the row the form builds
NewProduct(new_code, new_name, new_category, new_price, new_stock, new_recommend) ==
    [code |-> new_code,
     name |-> Strip(new_name),
     category |-> new_category,
     price |-> Whole(new_price),
     stock |-> Whole(new_stock),
     recommended |-> IF new_recommend > 0 THEN Whole(new_recommend)
                     ELSE DefaultRecommend(Whole(new_stock))]

\* the submit handler without the check for an existing code
RegisterOutcome_nodupcheck(new_code, new_name) ==
    IF new_code = <<>> \/ new_name = <<>> THEN "ValidationError" ELSE "ok"

\* what the submit handler reports for the form
RegisterOutcome(new_code, new_name) ==
    IF new_code = <<>> \/ new_name = <<>> THEN "ValidationError"
    ELSE IF HasCode(inventory, new_code) THEN "DuplicateKey"
    ELSE "ok"

\* the submit handler logging the registration only when the product
\* starts with stock
Register_logs_only_stock(new_code, new_name, new_category, new_price, new_stock, new_recommend) ==
    /\ steps < MaxSteps
    /\ IF RegisterOutcome(new_code, new_name) = "ok"
       THEN /\ inventory' = Append(inventory,
                    NewProduct(new_code, new_name, new_category, new_price,
                               new_stock, new_recommend))
            /\ transactions' = IF new_stock > 0
                               THEN add_transaction(transactions, "new-registration",
                                        new_code, new_name, Whole(new_stock), Zero,
                                        Whole(new_stock))
                               ELSE transactions
       ELSE UNCHANGED <<inventory, transactions>>
    /\ last' = [NoCall EXCEPT !.op = "register",
                              !.result = RegisterOutcome(new_code, new_name),
                              !.code = new_code, !.name = new_name,
                              !.qty = new_stock, !.rec = new_recommend,
                              !.category = new_category]
    /\ steps' = steps + 1
    /\ UNCHANGED <<reset_inventory_count, reset_trans_count>>

Register(new_code, new_name, new_category, new_price, new_stock, new_recommend) ==
    /\ steps < MaxSteps
    /\ IF RegisterOutcome(new_code, new_name) = "ok"
       THEN /\ inventory' = Append(inventory,
                    NewProduct(new_code, new_name, new_category, new_price,
                               new_stock, new_recommend))
            /\ transactions' = add_transaction(transactions, "new-registration",
                    new_code, new_name, Whole(new_stock), Zero, Whole(new_stock))
       ELSE UNCHANGED <<inventory, transactions>>
    /\ last' = [NoCall EXCEPT !.op = "register",
                              !.result = RegisterOutcome(new_code, new_name),
                              !.code = new_code, !.name = new_name,
                              !.qty = new_stock, !.rec = new_recommend,
                              !.category = new_category]
    /\ steps' = steps + 1
    /\ UNCHANGED <<reset_inventory_count, reset_trans_count>>

(***************************************************************************)
(* show_product_management, tab 2: stock adjustment.                       *)
(***************************************************************************)
\* change = qty if adj_type == "입고" else -qty
SignedChange(adj_type, qty) == IF adj_type = "inbound" THEN qty ELSE -qty

\* update_stock(code, change, adj_type).  The tab offers the codes of the
\* table only; a code outside the table is a direct call of the function.
UpdateStock(code, adj_type, qty) ==
    /\ steps < MaxSteps
    /\ LET r == update_stock(code, Whole(SignedChange(adj_type, qty)), adj_type)
       IN  /\ inventory' = r.inventory
           /\ transactions' = r.transactions
           /\ last' = [NoCall EXCEPT !.op = "update_stock",
                                     !.result = IF r.ret THEN "ok" ELSE "NotFound",
                                     !.code = code, !.ttype = adj_type, !.qty = qty]
    /\ steps' = steps + 1
    /\ UNCHANGED <<reset_inventory_count, reset_trans_count>>

\* the two tables after the direct-adjust branch
DirectAdjustResult(code, new_stock) ==
    LET idx == FirstIndex(inventory, code)
        current_stock == inventory[idx].stock
        change == FloatSub(Whole(new_stock), current_stock)
    IN  [inventory |-> [inventory EXCEPT ![idx].stock = Whole(new_stock)],
         transactions |-> add_transaction(transactions, "manual-adjust", code,
                              inventory[idx].name, change, current_stock,
                              Whole(new_stock))]

\* the largest whole number a number_input takes, 2^53 - 1, plus 1
NumberInputLimit == Canon(FALSE, BigShl(<<1>>, 53), 0)

\* st.number_input(min_value=0, value=int(current_stock)) shows: int() does
\* not raise (the quantity is finite) and the value is neither below
\* min_value nor above the largest whole number the widget takes
NewStockInputShown(current_stock) ==
    /\ IsFinite(current_stock)
    /\ ~ FloatLess(FloatTrunc(current_stock), Zero)
    /\ FloatLess(FloatTrunc(current_stock), NumberInputLimit)

\* adj_type == "직접조정".  The branch is reachable only for a product whose
\* number_input shows.
DirectAdjust(code, new_stock) ==
    /\ steps < MaxSteps
    /\ HasCode(inventory, code)
    /\ NewStockInputShown(inventory[FirstIndex(inventory, code)].stock)
    /\ inventory' = DirectAdjustResult(code, new_stock).inventory
    /\ transactions' = DirectAdjustResult(code, new_stock).transactions
    /\ last' = [NoCall EXCEPT !.op = "direct_adjust", !.result = "ok",
                              !.code = code, !.ttype = "manual-adjust",
                              !.qty = new_stock]
    /\ steps' = steps + 1
    /\ UNCHANGED <<reset_inventory_count, reset_trans_count>>

(***************************************************************************)
(* show_product_management, tab 3: bulk recommended quantity.              *)
(***************************************************************************)
\* int(current * multiplier) raises: OverflowError for an infinite product,
\* ValueError for nan
BulkRecommendRaises(current, multiplier) ==
    ~ IsFinite(FloatMul(current, Tenths(multiplier)))

\* the bulk value with the floor of 5 left out
BulkRecommend_nofloor(current, multiplier) ==
    FloatTrunc(FloatMul(current, Tenths(multiplier)))

\* max(int(current * multiplier), 5), the multiplier in tenths: int() cuts
\* the product of the two floats
BulkRecommend(current, multiplier) ==
    PyMax(FloatTrunc(FloatMul(current, Tenths(multiplier))), Whole(5))

\* the rows of the selected category on which line 845 raises
BulkFailures(batch_cat, multiplier) ==
    {i \in 1..Len(inventory) :
        /\ inventory[i].category = batch_cat
        /\ BulkRecommendRaises(inventory[i].stock, multiplier)}

\* the number of rows the loop gets through: all of them, or those before
\* the first row on which it raises
BulkReach(batch_cat, multiplier) ==
    IF BulkFailures(batch_cat, multiplier) = {} THEN Len(inventory)
    ELSE (CHOOSE i \in BulkFailures(batch_cat, multiplier) :
             \A j \in BulkFailures(batch_cat, multiplier) : i <= j) - 1

\* the bulk update with the category filter left out
BulkSetRecommended_allrows(batch_cat, multiplier) ==
    /\ steps < MaxSteps
    /\ inventory # <<>>
    /\ \E i \in 1..Len(inventory) : inventory[i].category = batch_cat
    /\ inventory' = [i \in 1..Len(inventory) |->
                       [inventory[i] EXCEPT !.recommended =
                           BulkRecommend(inventory[i].stock, multiplier)]]
    /\ last' = [NoCall EXCEPT !.op = "bulk_recommend", !.result = "ok",
                              !.category = batch_cat, !.qty = multiplier]
    /\ steps' = steps + 1
    /\ UNCHANGED <<transactions, reset_inventory_count, reset_trans_count>>

\* the tab returns early on an empty table; the selectbox offers the
\* categories present in the table.  The loop writes row after row: when
\* int() raises on a row, the rows before it keep their new value and the
\* handler ends with the exception.
BulkSetRecommended(batch_cat, multiplier) ==
    /\ steps < MaxSteps
    /\ inventory # <<>>
    /\ \E i \in 1..Len(inventory) : inventory[i].category = batch_cat
    /\ inventory' = [i \in 1..Len(inventory) |->
                       IF inventory[i].category = batch_cat
                            /\ i <= BulkReach(batch_cat, multiplier)
                       THEN [inventory[i] EXCEPT !.recommended =
                                 BulkRecommend(inventory[i].stock, multiplier)]
                       ELSE inventory[i]]
    /\ last' = [NoCall EXCEPT !.op = "bulk_recommend",
                              !.result = IF BulkFailures(batch_cat, multiplier) = {}
                                         THEN "ok" ELSE "error",
                              !.category = batch_cat, !.qty = multiplier]
    /\ steps' = steps + 1
    /\ UNCHANGED <<transactions, reset_inventory_count, reset_trans_count>>

(***************************************************************************)
(* show_file_upload: the upload button.                                    *)
(***************************************************************************)
\* the merge with the filter on existing codes left out
NewData_all(existing, processed_data) == processed_data

\* processed_data[~processed_data['상품코드'].isin(existing_codes)]
NewData(existing, processed_data) ==
    LET fresh(row) == ~ HasCode(existing, row.code)
    IN  SelectSeq(processed_data, fresh)

\* the handler with the replace checkbox ignored: it always merges
StoreProcessed_never_replace(p, replace_mode) ==
    IF p.error # "none"
    THEN [inventory |-> inventory, error |-> p.error]
    ELSE IF inventory = <<>>
    THEN [inventory |-> p.data, error |-> "none"]
    ELSE [inventory |-> inventory \o NewData(inventory, p.data), error |-> "none"]

\* the handler with the replace checkbox ignored: it always replaces
StoreProcessed_always_replace(p, replace_mode) ==
    IF p.error # "none"
    THEN [inventory |-> inventory, error |-> p.error]
    ELSE [inventory |-> p.data, error |-> "none"]

\* the rows of the table, each overwritten by the first imported row of its
\* code when the spreadsheet holds one
Overwritten(data) ==
    [i \in 1..Len(inventory) |->
        IF HasCode(data, inventory[i].code)
        THEN data[FirstIndex(data, inventory[i].code)]
        ELSE inventory[i]]

\* the handler with a merge that overwrites a product whose code the
\* spreadsheet holds by the first imported row of that code
StoreProcessed_overwrite(p, replace_mode) ==
    IF p.error # "none"
    THEN [inventory |-> inventory, error |-> p.error]
    ELSE IF replace_mode
    THEN [inventory |-> p.data, error |-> "none"]
    ELSE IF inventory = <<>>
    THEN [inventory |-> p.data, error |-> "none"]
    ELSE [inventory |-> Overwritten(p.data) \o NewData(inventory, p.data),
          error |-> "none"]

\* lines 666-697: what the handler does with the pair p = (processed_data,
\* error) it got: the product table after it, and the error it shows
\* ("none": success)
StoreProcessed(p, replace_mode) ==
    IF p.error # "none"
    THEN [inventory |-> inventory, error |-> p.error]
    ELSE IF replace_mode
    THEN [inventory |-> p.data, error |-> "none"]
    ELSE IF inventory = <<>>
    THEN [inventory |-> p.data, error |-> "none"]
    ELSE [inventory |-> inventory \o NewData(inventory, p.data), error |-> "none"]

\* line 664: the call process_inventory_excel(uploaded_file,
\* selected_category) with the pair (processed_data, error) it returns
Call(uploaded_file, selected_category) ==
    [file |-> uploaded_file,
     category |-> selected_category,
     processed |-> process_inventory_excel(uploaded_file, selected_category)]

\* process_inventory_excel reads nothing but its arguments: the calls of a
\* session of every handler, computed once
SessionCalls == {Call(f, SessionCategory(f)) : f \in SessionFiles}

\* the calls for every spreadsheet a user may upload, computed once
FileCalls == {Call(f, c) : f \in Files, c \in Categories}

\* the upload handler: the file is processed and the result stored
show_file_upload(call, replace_mode) == StoreProcessed(call.processed, replace_mode)

\* the tables and the report once the handler has ended with r
UploadDone(r, uploaded_file, selected_category, replace_mode) ==
    /\ steps < MaxSteps
    /\ inventory' = r.inventory
    /\ last' = [NoCall EXCEPT !.op = "upload",
                              !.result = IF r.error = "none" THEN "ok"
                                         ELSE "ValidationError",
                              !.category = selected_category,
                              !.replace = replace_mode,
                              !.file = uploaded_file,
                              !.error = r.error]
    /\ steps' = steps + 1
    /\ UNCHANGED <<transactions, reset_inventory_count, reset_trans_count>>

\* the upload button
UploadStep(call, replace_mode) ==
    UploadDone(show_file_upload(call, replace_mode), call.file, call.category,
               replace_mode)

Upload ==
    /\ steps < MaxSteps
    /\ \E call \in SessionCalls, m \in BOOLEAN : UploadStep(call, m)

(***************************************************************************)
(* show_system_management, tab 2: the two reset buttons.                   *)
(***************************************************************************)
\* the reset of the product table acting at the first press
ResetInventory_single_press ==
    /\ steps < MaxSteps
    /\ inventory' = <<>>
    /\ reset_inventory_count' = 0
    /\ last' = [NoCall EXCEPT !.op = "reset_inventory", !.result = "ok"]
    /\ steps' = steps + 1
    /\ UNCHANGED <<transactions, reset_trans_count>>

ResetInventory ==
    /\ steps < MaxSteps
    /\ IF reset_inventory_count + 1 >= 2
       THEN /\ inventory' = <<>>
            /\ reset_inventory_count' = 0
       ELSE /\ reset_inventory_count' = reset_inventory_count + 1
            /\ UNCHANGED inventory
    /\ last' = [NoCall EXCEPT !.op = "reset_inventory",
                              !.result = IF reset_inventory_count + 1 >= 2
                                         THEN "ok" ELSE "confirm"]
    /\ steps' = steps + 1
    /\ UNCHANGED <<transactions, reset_trans_count>>

ResetTransactions ==
    /\ steps < MaxSteps
    /\ IF reset_trans_count + 1 >= 2
       THEN /\ transactions' = <<>>
            /\ reset_trans_count' = 0
       ELSE /\ reset_trans_count' = reset_trans_count + 1
            /\ UNCHANGED transactions
    /\ last' = [NoCall EXCEPT !.op = "reset_transactions",
                              !.result = IF reset_trans_count + 1 >= 2
                                         THEN "ok" ELSE "confirm"]
    /\ steps' = steps + 1
    /\ UNCHANGED <<inventory, reset_inventory_count>>

(***************************************************************************)
(* show_order_management: the reorder page.                                *)
(***************************************************************************)
\* the page computes the reorder list and shows it; the tables stay
ShowOrderManagement ==
    /\ steps < MaxSteps
    /\ last' = [NoCall EXCEPT !.op = "low_stock", !.result = "ok",
                              !.view = get_low_stock_items]
    /\ steps' = steps + 1
    /\ UNCHANGED <<inventory, transactions, reset_inventory_count, reset_trans_count>>

(***************************************************************************)
(* The session: any handler, in any order.                                 *)
(***************************************************************************)
RegisterAny ==
    /\ steps < MaxSteps
    /\ \E f \in RegisterForms :
          Register(f.code, f.name, f.category, f.price, f.stock, f.recommend)

UpdateStockAny ==
    /\ steps < MaxSteps
    /\ \E c \in CodeInputs, t \in {"inbound", "sale", "disposal"},
          q \in QtyInputs : UpdateStock(c, t, q)

DirectAdjustAny ==
    /\ steps < MaxSteps
    /\ \E c \in CodeInputs, n \in NewStockInputs : DirectAdjust(c, n)

BulkSetRecommendedAny ==
    /\ steps < MaxSteps
    /\ \E k \in Categories, m \in MultiplierInputs : BulkSetRecommended(k, m)

Next ==
    \/ RegisterAny
    \/ UpdateStockAny
    \/ DirectAdjustAny
    \/ BulkSetRecommendedAny
    \/ Upload
    \/ ResetInventory
    \/ ResetTransactions
    \/ ShowOrderManagement

Spec == Init /\ [][Next]_vars

(***************************************************************************)
(* One upload, of a spreadsheet kept in `last`, into a table built by      *)
(* registrations: the sessions on which the claims about a single import   *)
(* are checked against the spreadsheet itself.                             *)
(***************************************************************************)
UploadKept ==
    /\ steps < MaxSteps
    /\ last.op # "upload"
    /\ \E call \in FileCalls, m \in BOOLEAN : UploadStep(call, m)

RegisterBeforeUpload ==
    /\ last.op # "upload"
    /\ RegisterAny

NextUpload ==
    \/ RegisterBeforeUpload
    \/ UploadKept

SpecUpload == Init /\ [][NextUpload]_vars

(***************************************************************************)
(* The reorder page on a table imported from one spreadsheet of many rows: *)
(* the sessions on which the order of a long reorder list is checked.      *)
(***************************************************************************)
\* number of data rows of the long spreadsheets
LongRows == 18

\* the long spreadsheets: LongRows - 1 or LongRows products with the codes
\* 1, 2, ..., recommended quantity 10 each, and on-hand quantities 0, 2 or
\* 10 laid out over the rows three by three
LongSheets ==
    { [columns |-> <<Column.code, Column.name, Column.price, Column.stock,
                     Column.carry, Column.recommended>>,
       rows |-> [k \in 1..n |->
                   <<Num(k), Str(<<"n">>), Num(100), Num(pattern[(k % 3) + 1]), NaN,
                     Num(10)>>],
       readable |-> TRUE] : n \in {LongRows - 1, LongRows},
                            pattern \in [1..3 -> {0, 2, 10}] }

\* the upload of a long spreadsheet as the first step of the session
UploadLong ==
    /\ steps < MaxSteps
    /\ last.op = "init"
    /\ \E f \in LongSheets, m \in BOOLEAN : UploadStep(Call(f, "01"), m)

NextLong ==
    \/ UploadLong
    \/ ShowOrderManagement

SpecLong == Init /\ [][NextLong]_vars

(***************************************************************************)
(* Properties.  A property of one handler is an action property: it reads  *)
(* the tables before the step (unprimed), the tables after it (primed) and *)
(* the call recorded in last'.                                             *)
(***************************************************************************)
\* the record a step appended to the log
Appended == transactions'[Len(transactions')]

\* the log grew by exactly one record and kept all it had
GrewByOne ==
    /\ Len(transactions') = Len(transactions) + 1
    /\ SubSeq(transactions', 1, Len(transactions)) = transactions

\* a <= b
FloatLeq(a, b) == FloatLess(a, b) \/ FloatEq(a, b)

AllNonNegative(table) == \A i \in 1..Len(table) : FloatLeq(Zero, table[i].stock)

\* r is the whole part of p, or 5 when that is below 5: r is a whole number
\* that is 5 when p < 5 and else lies in the unit below p
WholePartOrFive(r, p) ==
    /\ IsFinite(r) /\ r.exp = 0
    /\ IF FloatLess(p, Whole(5)) THEN r = Whole(5)
       ELSE FloatLeq(r, p) /\ FloatLess(FloatSub(p, r), Whole(1))

\* C1: a successful update_stock call (inbound, sale or disposal, positive
\* quantity) sets the on-hand quantity of the product to exactly
\* max(0, before + signed delta), the sum being the sum of the floats, and a
\* table whose on-hand quantities are all >= 0 before the call has them all
\* >= 0 after it.
C1_UpdateStockClamps ==
    [][ (last'.op = "update_stock" /\ last'.result = "ok") =>
          LET idx == FirstIndex(inventory, last'.code)
              delta == Whole(IF last'.ttype = "inbound" THEN last'.qty ELSE 0 - last'.qty)
              sum == FloatAdd(inventory[idx].stock, delta)
          IN  /\ last'.qty > 0
              /\ inventory'[idx].stock = (IF FloatLess(Zero, sum) THEN sum ELSE Zero)
              /\ AllNonNegative(inventory) => AllNonNegative(inventory') ]_vars

\* C1 witness: a sale or disposal larger than the on-hand quantity has been
\* applied and the on-hand quantity stands at 0.
C1_Witness ==
    /\ last.op = "update_stock" /\ last.result = "ok" /\ last.ttype # "inbound"
    /\ transactions # <<>>
    /\ FloatLess(transactions[Len(transactions)].before, Whole(last.qty))
    /\ inventory[FirstIndex(inventory, last.code)].stock = Zero

\* C2: a successful stock adjustment (update_stock or the direct-adjust
\* branch) grows the log by exactly one record, whose before and after are
\* the on-hand quantity of the product right before and right after the call.
C2_OneRecordPerAdjustment ==
    [][ (last'.op \in {"update_stock", "direct_adjust"} /\ last'.result = "ok") =>
          LET idx == FirstIndex(inventory, last'.code)
          IN  /\ GrewByOne
              /\ Appended.code = last'.code
              /\ Appended.type = last'.ttype
              /\ Appended.before = inventory[idx].stock
              /\ Appended.after = inventory'[idx].stock ]_vars

\* C2 witness: an adjustment that changed the on-hand quantity has been
\* logged on top of an earlier record.
C2_Witness ==
    /\ last.op \in {"update_stock", "direct_adjust"} /\ last.result = "ok"
    /\ Len(transactions) >= 2
    /\ transactions[Len(transactions)].before # transactions[Len(transactions)].after

\* C3 (as claimed): whenever a step changes the on-hand quantity stored for
\* a product code, the log grows by exactly one record carrying that code
\* and that before/after pair.
C3_EveryStockChangeLogged ==
    [][ \A c \in CodeInputs :
          (/\ HasCode(inventory, c) /\ HasCode(inventory', c)
           /\ inventory[FirstIndex(inventory, c)].stock
                # inventory'[FirstIndex(inventory', c)].stock)
          => /\ GrewByOne
             /\ Appended.code = c
             /\ Appended.before = inventory[FirstIndex(inventory, c)].stock
             /\ Appended.after = inventory'[FirstIndex(inventory', c)].stock ]_vars

\* C4 (as claimed): every product of the table has an on-hand quantity >= 0.
C4_StockNeverNegative == AllNonNegative(inventory)

\* C5 (as claimed): no two rows of the product table have the same code.
C5_CodesUnique ==
    \A i, j \in 1..Len(inventory) : inventory[i].code = inventory[j].code => i = j

(***************************************************************************)
(* The uploaded spreadsheet as the properties read it.                     *)
(***************************************************************************)
\* a cell that is empty or holds blanks only
BlankCell(c) ==
    \/ c.kind = "nan"
    \/ c.kind = "str" /\ \A i \in 1..Len(c.str) : IsSpace(c.str[i])

\* the columns of a header row whose header, less the blanks around it, is
\* the label
Places(h, col) == {k \in 1..Len(h) : Strip(h[k]) = col}

\* the same for the header rows of the spreadsheets of the sessions and the
\* labels the import reads
HeaderPlaces ==
    [h \in {f.columns : f \in Files \cup SessionFiles \cup LongSheets} |->
        [col \in {Column[c] : c \in DOMAIN Column} |-> Places(h, col)]]

\* the columns of the spreadsheet whose header, less the blanks around it,
\* is the label
Labelled(f, col) ==
    IF f.columns \in DOMAIN HeaderPlaces /\ col \in DOMAIN HeaderPlaces[f.columns]
    THEN HeaderPlaces[f.columns][col]
    ELSE Places(f.columns, col)

\* the cell of a row in the first of the columns s; the empty cell when
\* there is none
CellAt(r, s) == IF s = {} THEN NaN ELSE r[CHOOSE k \in s : \A j \in s : k <= j]

\* the cell of a row under the label (under the first column that bears
\* it); the empty cell when no column bears it
Cell(f, r, col) == CellAt(r, Labelled(f, col))

\* the rows of the spreadsheet with a code and a name, in file order
RowsWithCodeAndName(f) ==
    LET keeps(r) == /\ ~ BlankCell(Cell(f, r, Column.code))
                    /\ ~ BlankCell(Cell(f, r, Column.name))
    IN  SelectSeq(f.rows, keeps)

\* the rows of the spreadsheet that a successful upload adds to the table:
\* all that have a code and a name when the table is replaced or empty,
\* else those among them whose code the table does not hold
RowsAdded(f, table, replace_mode) ==
    LET fresh(r) == ~ HasCode(table, safe_str_convert(Cell(f, r, Column.code)))
    IN  IF replace_mode \/ table = <<>> THEN RowsWithCodeAndName(f)
        ELSE SelectSeq(RowsWithCodeAndName(f), fresh)

\* the cells of the spreadsheets of the sessions
SessionCells ==
    UNION { UNION { {f.rows[k][c] : c \in DOMAIN f.rows[k]} : k \in 1..Len(f.rows) } :
            f \in Files \cup SessionFiles }

\* the number each of them stands for, 0 when it stands for none
CellNumbers == [c \in SessionCells |-> safe_num_convert(c, Zero)]

\* the number a cell stands for, 0 when it stands for none
NumberIn(c) ==
    IF c \in DOMAIN CellNumbers THEN CellNumbers[c] ELSE safe_num_convert(c, Zero)

\* the recommended quantity the spreadsheet supplies for a row; 0: none
SuppliedRecommend(f, r) ==
    IF Labelled(f, Column.recommended) # {}
    THEN NumberIn(Cell(f, r, Column.recommended))
    ELSE Zero

\* the cell the on-hand quantity of a row is read from, and the quantity
QuantityCell(f, r) ==
    IF Labelled(f, Column.stock) # {} THEN Cell(f, r, Column.stock)
    ELSE IF Labelled(f, Column.carry) # {} THEN Cell(f, r, Column.carry)
    ELSE Num(0)

SuppliedStock(f, r) == NumberIn(QuantityCell(f, r))

\* the row wants the default of the recommended quantity and the default
\* cannot be computed: on-hand * 1.5 is an infinity or not a number
NoDefaultFor(f, r) ==
    /\ FloatEq(SuppliedRecommend(f, r), Zero)
    /\ ~ IsFinite(FloatMul(SuppliedStock(f, r), OneAndAHalf))

\* the rows of the table that a successful upload put there are its last ones
AddedAt(f, table, replace_mode, k) ==
    Len(inventory') - Len(RowsAdded(f, table, replace_mode)) + k

\* C6 (as claimed): an auto-derived recommended quantity (registration or
\* imported row with recommended absent or 0) equals max(on-hand * 1.5, 5)
\* for every on-hand quantity >= 0.
C6_RecommendIsOneAndAHalf ==
    [][ /\ (last'.op = "register" /\ last'.result = "ok" /\ last'.rec = 0) =>
             LET row == inventory'[Len(inventory')]
             IN  FloatEq(row.recommended,
                         PyMax(FloatMul(row.stock, OneAndAHalf), Whole(5)))
        /\ (last'.op = "upload" /\ last'.result = "ok") =>
             \A k \in 1..Len(RowsAdded(last'.file, inventory, last'.replace)) :
                LET r == RowsAdded(last'.file, inventory, last'.replace)[k]
                    row == inventory'[AddedAt(last'.file, inventory, last'.replace, k)]
                IN  (FloatEq(SuppliedRecommend(last'.file, r), Zero)
                       /\ FloatLeq(Zero, row.stock)) =>
                      FloatEq(row.recommended,
                              PyMax(FloatMul(row.stock, OneAndAHalf), Whole(5))) ]_vars

\* a stored row holds the code and the on-hand quantity of its spreadsheet
\* row, and the recommended quantity given there, or the rule's when none
\* (or 0) is given and the on-hand quantity is >= 0
StoredRowFollows(row, code, stock, given) ==
    /\ row.code = code
    /\ row.stock = stock
    /\ ~ FloatEq(given, Zero) => row.recommended = given
    /\ (FloatEq(given, Zero) /\ FloatLeq(Zero, stock)) =>
          WholePartOrFive(row.recommended, FloatMul(stock, OneAndAHalf))

\* the last rows of the table are the rows added from spreadsheet f, each
\* as StoredRowFollows wants it
AddedRowsFollow(f, added, table) ==
    \A k \in 1..Len(added) :
        StoredRowFollows(table[Len(table) - Len(added) + k],
                         safe_str_convert(Cell(f, added[k], Column.code)),
                         SuppliedStock(f, added[k]),
                         SuppliedRecommend(f, added[k]))

\* C6 (amended): an auto-derived recommended quantity equals
\* max(int(on-hand * 1.5), 5), the float product cut to its whole part
\* before the floor of 5 applies (on-hand 5 gives 7), for every on-hand
\* quantity >= 0; a supplied non-zero recommended quantity is stored
\* unchanged.
C6_RecommendIsWholePart ==
    [][ /\ (last'.op = "register" /\ last'.result = "ok") =>
             LET row == inventory'[Len(inventory')]
             IN  /\ row.stock = Whole(last'.qty)
                 /\ IF last'.rec # 0 THEN row.recommended = Whole(last'.rec)
                    ELSE WholePartOrFive(row.recommended,
                                         FloatMul(row.stock, OneAndAHalf))
        /\ (last'.op = "upload" /\ last'.result = "ok") =>
             AddedRowsFollow(last'.file,
                             RowsAdded(last'.file, inventory, last'.replace),
                             inventory') ]_vars

\* C6 witness: an upload has stored a row with on-hand 5 whose recommended
\* cell was empty, and its recommended quantity stands at 7.
C6_Witness ==
    /\ last.op = "upload" /\ last.result = "ok"
    /\ \E k \in 1..Len(last.file.rows), i \in 1..Len(inventory) :
          /\ Labelled(last.file, Column.recommended) # {}
          /\ Cell(last.file, last.file.rows[k], Column.recommended) = NaN
          /\ inventory[i].code
               = safe_str_convert(Cell(last.file, last.file.rows[k], Column.code))
          /\ inventory[i].stock = Whole(5)
          /\ inventory[i].recommended = Whole(7)

\* an upload has stored a row with on-hand 4.5 whose recommended quantity
\* was 0, and its recommended quantity stands at 6
C6_FractionCaseReached ==
    /\ last.op = "upload" /\ last.result = "ok"
    /\ \E i \in 1..Len(inventory) :
          /\ inventory[i].stock = FromDecimal(FALSE, <<45>>, -1)
          /\ inventory[i].recommended = Whole(6)

\* C7 (as claimed): registering a code the table already holds is rejected
\* as a duplicate key and leaves the product table and the log as they were.
C7_DuplicateReportedAsDuplicateKey ==
    [][ (last'.op = "register" /\ HasCode(inventory, last'.code)) =>
          /\ last'.result = "DuplicateKey"
          /\ inventory' = inventory
          /\ transactions' = transactions ]_vars

\* C7 (amended): registering a code the table already holds is rejected and
\* leaves the product table and the log as they were; it is reported as a
\* duplicate key when the form names the product, and as a missing field
\* when the name is empty.
C7_DuplicateRejected ==
    [][ (last'.op = "register" /\ HasCode(inventory, last'.code)) =>
          /\ last'.result = (IF last'.name = <<>> THEN "ValidationError"
                             ELSE "DuplicateKey")
          /\ inventory' = inventory
          /\ transactions' = transactions ]_vars

\* C7 witness: a registration has been rejected as a duplicate key.
C7_Witness ==
    /\ last.op = "register" /\ last.result = "DuplicateKey"
    /\ HasCode(inventory, last.code)
    /\ transactions # <<>>

\* a registration of a code the table holds, with the name left empty, has
\* been rejected for the missing field
C7_MissingNameReached ==
    /\ last.op = "register" /\ last.result = "ValidationError"
    /\ last.name = <<>>
    /\ HasCode(inventory, last.code)

\* C8: update_stock with a code the table does not hold reports failure and
\* leaves the product table and the log as they were.
C8_UnknownCodeNoChange ==
    [][ (last'.op = "update_stock" /\ ~ HasCode(inventory, last'.code)) =>
          /\ last'.result = "NotFound"
          /\ inventory' = inventory
          /\ transactions' = transactions ]_vars

\* C8 witness: update_stock has reported failure for a code unknown to a
\* table that holds another product.
C8_Witness ==
    /\ last.op = "update_stock" /\ last.result = "NotFound"
    /\ inventory # <<>>
    /\ ~ HasCode(inventory, last.code)

\* the spreadsheet lacks the code or the name column
MissingColumn(f) == Labelled(f, Column.code) = {} \/ Labelled(f, Column.name) = {}

\* a label the import reads stands over two columns of the spreadsheet: that
\* of the code, the name, the price or the recommended quantity, that of the
\* on-hand quantity, or, in a spreadsheet without on-hand column, that of the
\* carry quantity
DoubledColumn(f) ==
    \/ \E col \in {Column.code, Column.name, Column.price, Column.stock, Column.recommended} :
          Cardinality(Labelled(f, col)) > 1
    \/ Labelled(f, Column.stock) = {} /\ Cardinality(Labelled(f, Column.carry)) > 1

\* C9 (as claimed): an upload fails with a validation error exactly when
\* the code or the name column is missing or no row has both a code and a
\* name, and a failed upload leaves the product table and the log as they
\* were, in either mode.
C9_UploadFailsExactlyWhen ==
    [][ last'.op = "upload" =>
          LET f == last'.file
          IN  /\ (last'.result = "ValidationError")
                    <=> (MissingColumn(f) \/ RowsWithCodeAndName(f) = <<>>)
              /\ last'.result = "ValidationError" =>
                    (inventory' = inventory /\ transactions' = transactions) ]_vars

\* C9 (amended): an upload fails exactly when the file cannot be read, the
\* code or the name column is missing, a label the import reads stands over
\* two columns once the headers are stripped, the default of the
\* recommended quantity cannot be computed for some row (with or without
\* code and name), or no row has both a code and a name; it fails in the
\* except branch exactly in the first case and, for a sheet with rows and
\* both columns, in the third and the fourth; a failed upload leaves the
\* product table and the log as they were, in either mode.
C9_UploadFailsExactlyWhenListed ==
    [][ last'.op = "upload" =>
          LET f == last'.file
              raises == \E k \in 1..Len(f.rows) : NoDefaultFor(f, f.rows[k])
          IN  /\ (last'.result # "ok")
                    <=> (~ f.readable \/ MissingColumn(f) \/ DoubledColumn(f) \/ raises
                           \/ RowsWithCodeAndName(f) = <<>>)
              /\ (last'.error = "processing error")
                    <=> (~ f.readable
                           \/ (f.rows # <<>> /\ ~ MissingColumn(f)
                                 /\ (DoubledColumn(f) \/ raises)))
              /\ last'.result # "ok" =>
                    (inventory' = inventory /\ transactions' = transactions) ]_vars

\* C9 witness: a replace-mode upload of a sheet with both columns, each
\* label over one column, and a row with code and name has failed in the
\* except branch, on a table that holds a product.
C9_Witness ==
    /\ last.op = "upload" /\ last.result # "ok" /\ last.replace
    /\ last.error = "processing error"
    /\ ~ MissingColumn(last.file) /\ ~ DoubledColumn(last.file)
    /\ RowsWithCodeAndName(last.file) # <<>>
    /\ inventory # <<>>

\* a replace-mode upload of rows with codes but without the name column has
\* failed on a table that holds a product
C9_MissingColumnReached ==
    /\ last.op = "upload" /\ last.result # "ok" /\ last.replace
    /\ last.error = "missing columns"
    /\ last.file.rows # <<>>
    /\ inventory # <<>>

\* an upload of a sheet with two on-hand columns, whose rows have code and
\* name and finite quantities, has failed in the except branch
C9_DoubledColumnReached ==
    /\ last.op = "upload" /\ last.result # "ok"
    /\ last.error = "processing error"
    /\ Cardinality(Labelled(last.file, Column.stock)) = 2
    /\ RowsWithCodeAndName(last.file) = last.file.rows
    /\ \A k \in 1..Len(last.file.rows) : ~ NoDefaultFor(last.file, last.file.rows[k])

\* an upload of a sheet with two carry columns next to its on-hand column
\* has succeeded
C9_UnreadDoubledColumnReached ==
    /\ last.op = "upload" /\ last.result = "ok"
    /\ Cardinality(Labelled(last.file, Column.carry)) = 2
    /\ inventory # <<>>

\* C10 (as claimed): the direct-adjust branch records the signed delta
\* new quantity - before as the quantity of its transaction.
C10_DirectRecordsSignedDelta ==
    [][ last'.op = "direct_adjust" =>
          Appended.qty
            = FloatSub(Whole(last'.qty),
                       inventory[FirstIndex(inventory, last'.code)].stock) ]_vars

\* C10 (amended): the direct-adjust branch records the size of the change,
\* |new quantity - before|, so lowering a product records a positive quantity
\* and the direction shows in before and after only.
C10_DirectRecordsMagnitude ==
    [][ last'.op = "direct_adjust" =>
          LET before == inventory[FirstIndex(inventory, last'.code)].stock
          IN  /\ GrewByOne
              /\ Appended.type = "manual-adjust"
              /\ Appended.before = before
              /\ Appended.after = Whole(last'.qty)
              /\ Appended.qty = (IF FloatLeq(before, Whole(last'.qty))
                                 THEN FloatSub(Whole(last'.qty), before)
                                 ELSE FloatSub(before, Whole(last'.qty))) ]_vars

\* C10 witness: a direct adjustment has lowered a product and logged a
\* positive quantity.
C10_Witness ==
    /\ last.op = "direct_adjust"
    /\ transactions # <<>>
    /\ FloatLess(transactions[Len(transactions)].after,
                 transactions[Len(transactions)].before)
    /\ FloatLess(Zero, transactions[Len(transactions)].qty)

\* C11: every record of the log has a quantity >= 0, whatever its type.
C11_LoggedQuantityIsMagnitude ==
    \A i \in 1..Len(transactions) :
        /\ FloatLeq(Zero, transactions[i].qty)
        /\ transactions[i].type \in {"inbound", "sale", "disposal",
                                     "manual-adjust", "new-registration"}

\* C11 witness: the log holds a sale or disposal, a lowering direct
\* adjustment and a registration, each with its quantity.
C11_Witness ==
    /\ \E i \in 1..Len(transactions) :
          /\ transactions[i].type \in {"sale", "disposal"}
          /\ FloatLess(Zero, transactions[i].qty)
    /\ \E i \in 1..Len(transactions) :
          /\ transactions[i].type = "manual-adjust"
          /\ FloatLess(transactions[i].after, transactions[i].before)
    /\ \E i \in 1..Len(transactions) : transactions[i].type = "new-registration"

\* C12: the reorder list holds exactly the products whose on-hand quantity
\* is below their recommended quantity, each once and with shortage =
\* recommended - on-hand, and the shortage never grows along the list.
C12_ReorderListIsShortagesDescending ==
    last.op = "low_stock" =>
      LET v == last.view
      IN  /\ \A i \in 1..Len(inventory) :
                FloatLess(inventory[i].stock, inventory[i].recommended)
                  <=> (\E k \in 1..Len(v) : v[k].index = i)
          /\ \A k, l \in 1..Len(v) : v[k].index = v[l].index => k = l
          /\ \A k \in 1..Len(v) :
                /\ v[k].index \in 1..Len(inventory)
                /\ v[k].code = inventory[v[k].index].code
                /\ v[k].stock = inventory[v[k].index].stock
                /\ v[k].recommended = inventory[v[k].index].recommended
                /\ v[k].shortage = FloatSub(v[k].recommended, v[k].stock)
                /\ FloatLess(Zero, v[k].shortage)
          /\ \A k, l \in 1..Len(v) : k < l => FloatLeq(v[l].shortage, v[k].shortage)

\* C12 witness: the list shows two products, the one with the larger
\* shortage first although it stands later in the table.
C12_Witness ==
    /\ last.op = "low_stock"
    /\ Len(last.view) >= 2
    /\ FloatLess(last.view[2].shortage, last.view[1].shortage)
    /\ last.view[1].index > last.view[2].index

\* C13 (as claimed): two products of the reorder list with the same shortage
\* stand in the order they have in the product table.
C13_ReorderListTiesInTableOrder ==
    last.op = "low_stock" =>
      \A k, l \in 1..Len(last.view) :
          (k < l /\ FloatEq(last.view[k].shortage, last.view[l].shortage))
            => last.view[k].index < last.view[l].index

\* the reorder list of a table of 17 products, all with the same shortage,
\* shows them in table order
C13_ShortListInTableOrderReached ==
    /\ last.op = "low_stock"
    /\ Len(inventory) = 17
    /\ Len(last.view) = 17
    /\ \A k \in 1..17 : last.view[k].index = k
    /\ \A k \in 1..17 : FloatEq(last.view[k].shortage, last.view[1].shortage)

\* the reorder list of a table of 18 products, all with the same shortage,
\* shows the third product of the table in the place before the last
C13_LongListOutOfTableOrderReached ==
    /\ last.op = "low_stock"
    /\ Len(inventory) = 18
    /\ Len(last.view) = 18
    /\ \A k \in 1..18 : FloatEq(last.view[k].shortage, last.view[1].shortage)
    /\ last.view[17].index = 3

\* the float product on-hand * multiplier of a row, the multiplier in tenths
BulkProduct(row, multiplier) == FloatMul(row.stock, Tenths(multiplier))

\* C14 (as claimed): the bulk update gives every product of the selected
\* category recommended = max(on-hand * multiplier, 5) exactly, also when the
\* product is not a whole number.
C14_BulkIsExactProduct ==
    [][ last'.op = "bulk_recommend" =>
          \A i \in 1..Len(inventory) :
              inventory[i].category = last'.category =>
                FloatEq(inventory'[i].recommended,
                        PyMax(BulkProduct(inventory[i], last'.qty), Whole(5))) ]_vars

\* C14 (amended): when the product on-hand * multiplier is finite for every
\* product of the selected category, the bulk update gives each of them the
\* whole part of that float product, and 5 when that is below 5.  When the
\* product is an infinity or not a number for some of them, the update ends
\* in an error at the first such row of the table: the products of the
\* category above it have their new value, the rows from it on are as they
\* were.
C14_BulkIsWholePart ==
    [][ last'.op = "bulk_recommend" =>
          LET failing(i) == /\ inventory[i].category = last'.category
                            /\ ~ IsFinite(BulkProduct(inventory[i], last'.qty))
              reached(i) == \A j \in 1..i : ~ failing(j)
          IN  /\ (last'.result = "ok") <=> (\A i \in 1..Len(inventory) : ~ failing(i))
              /\ \A i \in 1..Len(inventory) :
                    IF inventory[i].category = last'.category /\ reached(i)
                    THEN WholePartOrFive(inventory'[i].recommended,
                                         BulkProduct(inventory[i], last'.qty))
                    ELSE inventory'[i].recommended = inventory[i].recommended ]_vars

\* the bulk update with multiplier 4.6 has left a product with on-hand 25
\* at recommended 114, one below the exact product 115
C14_FloatCaseReached ==
    /\ last.op = "bulk_recommend" /\ last.qty = 46
    /\ \E i \in 1..Len(inventory) :
          /\ inventory[i].category = last.category
          /\ inventory[i].stock = Whole(25)
          /\ inventory[i].recommended = Whole(114)

\* the bulk update has ended in an error at a product with an infinite
\* on-hand quantity
C14_ErrorCaseReached ==
    /\ last.op = "bulk_recommend" /\ last.result = "error"
    /\ \E i \in 1..Len(inventory) :
          /\ inventory[i].category = last.category
          /\ inventory[i].stock = Inf(FALSE)

\* C14 witness: a bulk update with multiplier 1.5 has left a product with
\* on-hand 5 at recommended 7.
C14_Witness ==
    /\ last.op = "bulk_recommend" /\ last.qty = 15 /\ last.result = "ok"
    /\ \E i \in 1..Len(inventory) :
          /\ inventory[i].category = last.category
          /\ inventory[i].stock = Whole(5)
          /\ inventory[i].recommended = Whole(7)

\* C15: the bulk update leaves the log as it was, keeps the number of
\* products and every product's code, name, category, price and on-hand
\* quantity, and leaves a product of another category wholly as it was.
C15_BulkChangesOnlyRecommended ==
    [][ last'.op = "bulk_recommend" =>
          /\ transactions' = transactions
          /\ Len(inventory') = Len(inventory)
          /\ \A i \in 1..Len(inventory) :
                /\ inventory'[i].code = inventory[i].code
                /\ inventory'[i].name = inventory[i].name
                /\ inventory'[i].category = inventory[i].category
                /\ inventory'[i].price = inventory[i].price
                /\ inventory'[i].stock = inventory[i].stock
                /\ inventory[i].category # last'.category
                     => inventory'[i] = inventory[i] ]_vars

\* C15 witness: a bulk update has changed the recommended quantity of no
\* product of the other category: the table holds a product of the selected
\* category at the bulk value and one of another category at a different
\* value than the bulk one, with the log not empty.
C15_Witness ==
    /\ last.op = "bulk_recommend"
    /\ transactions # <<>>
    /\ \E i, j \in 1..Len(inventory) :
          /\ inventory[i].category = last.category
          /\ inventory[i].recommended = BulkRecommend(inventory[i].stock, last.qty)
          /\ inventory[j].category # last.category
          /\ inventory[j].recommended # BulkRecommend(inventory[j].stock, last.qty)

\* the code and the name a spreadsheet row carries, as text
FileCode(f, r) == safe_str_convert(Cell(f, r, Column.code))
FileName(f, r) == safe_str_convert(Cell(f, r, Column.name))

\* the number of rows of a table with the given code
CountCode(table, code) == Cardinality({i \in 1..Len(table) : table[i].code = code})

\* C16: after a successful replace-mode upload the product table is, row by
\* row and in file order, the spreadsheet rows that have a code and a name
\* (with the category chosen for the upload), and a product whose code the
\* spreadsheet does not carry in such a row is no longer in the table.
C16_ReplaceKeepsOnlyImportedRows ==
    [][ (last'.op = "upload" /\ last'.result = "ok" /\ last'.replace) =>
          LET rows == RowsWithCodeAndName(last'.file)
          IN  /\ Len(inventory') = Len(rows)
              /\ \A k \in 1..Len(rows) :
                    /\ inventory'[k].code = FileCode(last'.file, rows[k])
                    /\ inventory'[k].name = FileName(last'.file, rows[k])
                    /\ inventory'[k].category = last'.category
              /\ \A i \in 1..Len(inventory) :
                    (\A k \in 1..Len(rows) :
                        FileCode(last'.file, rows[k]) # inventory[i].code)
                      => ~ HasCode(inventory', inventory[i].code) ]_vars

\* C16 witness: a replace-mode upload has succeeded, a spreadsheet row
\* without code or name was left out, and a product registered before (its
\* registration is in the log) is gone from the table.
C16_Witness ==
    /\ last.op = "upload" /\ last.result = "ok" /\ last.replace
    /\ Len(inventory) < Len(last.file.rows)
    /\ transactions # <<>>
    /\ ~ HasCode(inventory, transactions[1].code)

\* C17: a successful merge-mode upload into a table that is not empty keeps
\* the rows of the table where they are and appends, in file order, exactly
\* the spreadsheet rows with a code and a name whose code the table did not
\* hold: the table grows by their number.
C17_MergeAppendsNewCodes ==
    [][ (last'.op = "upload" /\ last'.result = "ok" /\ ~ last'.replace
            /\ inventory # <<>>) =>
          LET fresh(r) == \A i \in 1..Len(inventory) : inventory[i].code # FileCode(last'.file, r)
              new == SelectSeq(RowsWithCodeAndName(last'.file), fresh)
          IN  /\ Len(inventory') = Len(inventory) + Len(new)
              /\ \A i \in 1..Len(inventory) : inventory'[i] = inventory[i]
              /\ \A k \in 1..Len(new) :
                    /\ inventory'[Len(inventory) + k].code = FileCode(last'.file, new[k])
                    /\ inventory'[Len(inventory) + k].name = FileName(last'.file, new[k])
                    /\ inventory'[Len(inventory) + k].category = last'.category ]_vars

\* C17 witness: a merge-mode upload of a spreadsheet with the code of a
\* registered product and a new code has appended the new one (price 0, as
\* the spreadsheet gives it) behind the registered one.
C17_Witness ==
    /\ last.op = "upload" /\ last.result = "ok" /\ ~ last.replace
    /\ transactions # <<>>
    /\ Len(inventory) = 2
    /\ inventory[1].code = transactions[1].code
    /\ inventory[2].code # inventory[1].code
    /\ inventory[2].price = Zero
    /\ \E k, l \in 1..Len(last.file.rows) :
          /\ FileCode(last.file, last.file.rows[k]) = inventory[1].code
          /\ FileCode(last.file, last.file.rows[l]) = inventory[2].code
          /\ ~ BlankCell(Cell(last.file, last.file.rows[k], Column.name))

\* C18 (as claimed): after a successful merge-mode upload a product whose
\* code the spreadsheet carries (in a row with code and name) has the price,
\* the on-hand and the recommended quantity of an imported row of that code.
C18_MergeOverwritesExisting ==
    [][ (last'.op = "upload" /\ last'.result = "ok" /\ ~ last'.replace
            /\ inventory # <<>>) =>
          LET data == process_inventory_excel(last'.file, last'.category).data
          IN  \A i \in 1..Len(inventory) :
                 HasCode(data, inventory[i].code) =>
                   \E k \in 1..Len(data) :
                      /\ data[k].code = inventory[i].code
                      /\ inventory'[i].price = data[k].price
                      /\ inventory'[i].stock = data[k].stock
                      /\ inventory'[i].recommended = data[k].recommended ]_vars

\* C18 (amended): a successful merge-mode upload into a table that is not
\* empty skips a spreadsheet row whose code the table already holds: the
\* product keeps its price, on-hand and recommended quantity, and the table
\* holds no more rows of that code than before.
C18_MergeSkipsExisting ==
    [][ (last'.op = "upload" /\ last'.result = "ok" /\ ~ last'.replace
            /\ inventory # <<>>) =>
          \A k \in 1..Len(last'.file.rows) :
             LET code == FileCode(last'.file, last'.file.rows[k])
             IN  HasCode(inventory, code) =>
                   /\ CountCode(inventory', code) = CountCode(inventory, code)
                   /\ \A i \in 1..Len(inventory) :
                         inventory[i].code = code =>
                           /\ inventory'[i].code = code
                           /\ inventory'[i].price = inventory[i].price
                           /\ inventory'[i].stock = inventory[i].stock
                           /\ inventory'[i].recommended = inventory[i].recommended ]_vars

\* C18 witness: a merge-mode upload has succeeded whose spreadsheet carries
\* the code of a registered product with another on-hand quantity, and the
\* product still has its own.
C18_Witness ==
    /\ last.op = "upload" /\ last.result = "ok" /\ ~ last.replace
    /\ transactions # <<>>
    /\ inventory[1].code = transactions[1].code
    /\ inventory[1].stock = transactions[1].after
    /\ Labelled(last.file, Column.stock) # {}
    /\ \E k \in 1..Len(last.file.rows) :
          /\ FileCode(last.file, last.file.rows[k]) = inventory[1].code
          /\ ~ BlankCell(Cell(last.file, last.file.rows[k], Column.name))
          /\ safe_num_convert(Cell(last.file, last.file.rows[k], Column.stock), Zero)
               # inventory[1].stock

\* C19: every step other than the confirmed reset of the log keeps all the
\* records the log had, unchanged and in their order, in front of whatever
\* it appends; the confirmed reset leaves the log empty.
C19_LogAppendOnly ==
    [][ IF last'.op = "reset_transactions" /\ last'.result = "ok"
        THEN transactions' = <<>>
        ELSE /\ Len(transactions') >= Len(transactions)
             /\ \A k \in 1..Len(transactions) : transactions'[k] = transactions[k] ]_vars

\* C19 witness: a direct adjustment has appended a record to a log that
\* held records already, and the log starts with a registration as before.
C19_Witness ==
    /\ last.op = "direct_adjust" /\ last.result = "ok"
    /\ Len(transactions) >= 2
    /\ transactions[1].type = "new-registration"
    /\ transactions[Len(transactions)].type = "manual-adjust"

\* C20 (as claimed): on every step other than the confirmed reset of the
\* product table, each code of the table is still in the table afterwards.
C20_ProductsStayExceptReset ==
    [][ ~ (last'.op = "reset_inventory" /\ last'.result = "ok") =>
          \A i \in 1..Len(inventory) : HasCode(inventory', inventory[i].code) ]_vars

\* C20 (amended): on every step other than the confirmed reset of the
\* product table and a successful replace-mode upload, each code of the
\* table keeps as many rows in the table as it had, or gains some.
C20_ProductsStayExceptResetAndReplace ==
    [][ ~ \/ last'.op = "reset_inventory" /\ last'.result = "ok"
          \/ last'.op = "upload" /\ last'.result = "ok" /\ last'.replace
        => \A i \in 1..Len(inventory) :
              CountCode(inventory', inventory[i].code)
                 >= CountCode(inventory, inventory[i].code) ]_vars

\* C20 witness: a merge-mode upload has added a product, and the product
\* registered before it is still in the table.
C20_Witness ==
    /\ last.op = "upload" /\ last.result = "ok" /\ ~ last.replace
    /\ transactions # <<>>
    /\ Len(inventory) >= 2
    /\ inventory[1].code = transactions[1].code
    /\ \E k \in 1..Len(last.file.rows) :
          FileCode(last.file, last.file.rows[k]) = inventory[Len(inventory)].code

\* C21: a successful registration adds exactly one row, behind the rows of
\* the table, which stay as they were; the row has the code and the initial
\* quantity of the form; the log grows by exactly one record, of type
\* new-registration, with that code, before = 0 and after = quantity = the
\* initial quantity.
C21_RegistrationAddsRowAndRecord ==
    [][ (last'.op = "register" /\ last'.result = "ok") =>
          /\ ~ HasCode(inventory, last'.code)
          /\ Len(inventory') = Len(inventory) + 1
          /\ \A i \in 1..Len(inventory) : inventory'[i] = inventory[i]
          /\ inventory'[Len(inventory')].code = last'.code
          /\ inventory'[Len(inventory')].stock = Whole(last'.qty)
          /\ GrewByOne
          /\ Appended.type = "new-registration"
          /\ Appended.code = last'.code
          /\ Appended.before = Zero
          /\ Appended.after = Whole(last'.qty)
          /\ Appended.qty = Whole(last'.qty) ]_vars

\* C21 witness: a second product has been registered with stock, behind a
\* product of another code, and the log ends with its registration.
C21_Witness ==
    /\ last.op = "register" /\ last.result = "ok" /\ last.qty > 0
    /\ Len(inventory) >= 2
    /\ inventory[1].code # last.code
    /\ inventory[Len(inventory)].code = last.code
    /\ Len(transactions) >= 2
    /\ transactions[Len(transactions)].type = "new-registration"
    /\ transactions[Len(transactions)].after = Whole(last.qty)

\* C22: update_stock for a sale or a disposal of more than the on-hand
\* quantity of a product of the table succeeds, leaves the on-hand quantity
\* at 0 and appends one record whose quantity is the requested one, which is
\* more than before - after.
C22_OversellNotRejected ==
    [][ (/\ last'.op = "update_stock" /\ last'.ttype \in {"sale", "disposal"}
         /\ HasCode(inventory, last'.code)
         /\ FloatLess(inventory[FirstIndex(inventory, last'.code)].stock,
                      Whole(last'.qty))) =>
          /\ last'.result = "ok"
          /\ inventory'[FirstIndex(inventory, last'.code)].stock = Zero
          /\ GrewByOne
          /\ Appended.qty = Whole(last'.qty)
          /\ FloatLess(FloatSub(Appended.before, Appended.after), Appended.qty) ]_vars

\* C22 witness: a sale or disposal of more than the product had has been
\* logged: the product had stock, less than the quantity of the record, and
\* has none now.
C22_Witness ==
    /\ last.op = "update_stock" /\ last.result = "ok"
    /\ last.ttype \in {"sale", "disposal"}
    /\ transactions # <<>>
    /\ LET rec == transactions[Len(transactions)]
       IN  /\ rec.qty = Whole(last.qty)
           /\ FloatLess(Zero, rec.before)
           /\ FloatLess(rec.before, rec.qty)
           /\ rec.after = Zero
           /\ FloatLess(FloatSub(rec.before, rec.after), rec.qty)

\* C23: a press of the inventory reset at counter 0 sets the counter to 1
\* and changes neither table; a press at counter 1 empties the product table,
\* sets the counter back to 0 and leaves the log; no other step changes the
\* counter of the inventory reset, no press of the inventory reset changes
\* the counter of the log reset, and a press of the log reset leaves the
\* product table.
C23_InventoryResetTwoPresses ==
    [][ /\ (last'.op = "reset_inventory" /\ reset_inventory_count = 0) =>
              /\ reset_inventory_count' = 1
              /\ inventory' = inventory
              /\ transactions' = transactions
        /\ (last'.op = "reset_inventory" /\ reset_inventory_count = 1) =>
              /\ reset_inventory_count' = 0
              /\ inventory' = <<>>
              /\ transactions' = transactions
        /\ last'.op = "reset_inventory" => reset_trans_count' = reset_trans_count
        /\ last'.op # "reset_inventory" =>
              reset_inventory_count' = reset_inventory_count
        /\ last'.op = "reset_transactions" => inventory' = inventory ]_vars

\* C23 witness: the second press of the inventory reset has emptied a table
\* that held a registered product; the counter is back at 0 and the log
\* still has the registration.
C23_Witness ==
    /\ last.op = "reset_inventory" /\ last.result = "ok"
    /\ reset_inventory_count = 0
    /\ inventory = <<>>
    /\ transactions # <<>>
    /\ transactions[1].type = "new-registration"

====
